---- MODULE Spec2Model ----
(***************************************************************************)
(* Model of the smooth-freecad format converter: the unit-value codec and  *)
(* the tool-bit / tool-library parsers and converters of fctb_parser.py    *)
(* and fctl_parser.py, and the duplicate detection of SmoothDialog.py.     *)
(*                                                                         *)
(* Python values are tagged records.  Text is a sequence of one-character  *)
(* strings, so that trimming, pattern matching, case conversion and        *)
(* formatting are computed character by character.                         *)
(***************************************************************************)
EXTENDS Integers, Sequences, FiniteSets, TLC

VARIABLES
    pc,               \* position of the modelled call sequence
    value,            \* argument `value` of the codec functions
    unit,             \* argument `unit` of format_parameter_value
    data,             \* a parsed JSON document handed to a *_dict parser
    tool,             \* the normalized tool bit returned by parse_fctb_dict
    library,          \* the normalized library returned by parse_fctl_dict
    smooth_tool,      \* an exchange tool item (outcome of fctb_to_smooth, or an input)
    fctb,             \* outcome of smooth_to_fctb
    items,            \* tool items returned by GET /api/v1/tool-items
    existing_by_id,   \* export_tool_bits: index of fetched items by FreeCAD id
    existing_by_sig,  \* export_tool_bits: index of fetched items by signature
    file_path,        \* argument of parse_fctb / parse_fctl
    files,            \* the file system: path -> content
    default_shape,    \* argument `default_shape` of smooth_to_fctb
    tool_set,         \* an exchange tool set (outcome of library_to_smooth_tool_set, or an input)
    tools_dict,       \* argument `tools_dict`: tool number -> exchange tool item
    fctl,             \* outcome of smooth_to_fctl
    output_dir,       \* the output directory: whether it exists, and the content of each file in it
    attachment,       \* argument `shape_data` of download_and_save_shape
    filename,         \* argument `filename` of download_and_save_shape
    expected_hash,    \* argument `expected_hash` of verify_shape_file_integrity
    upload_url,       \* argument `upload_url` of create_shape_data_reference
    shape_reference,  \* argument `shape_reference` of resolve_shape_file_path
    base_dir,         \* argument `base_dir` of resolve_shape_file_path
    search_dirs,      \* argument `search_dirs` of resolve_shape_file_path
    calls,            \* the call each of the two threads makes: function and arguments
    frames,           \* the frame of each running call: its code, its locals, its result
    selected,         \* the selected entries: `selected_bits` of export_tool_bits, `selected_items` of import_tool_items
    idx,              \* number of selected entries the loop has processed
    smooth_tools,     \* local `smooth_tools` of export_tool_bits
    tools_exported,   \* counter `tools_exported` of export_tool_bits
    errors,           \* counter `errors` of export_tool_bits and import_tool_items
    skipped,          \* counter `skipped` of export_tool_bits
    imported,         \* counter `imported` of import_tool_items
    posts,            \* the payloads of the bulk POST requests sent so far
    shapes_dir,       \* argument `shapes_dir` of import_tool_items
    written,          \* the calls of write_fctb and write_fctl made so far, in order
    file_content,     \* local `file_content` of prepare_shape_upload
    file_hash,        \* local `file_hash` of prepare_shape_upload
    file_size,        \* local `file_size` of prepare_shape_upload
    ret               \* outcome of the last call of a function without its own variable

vars == <<pc, value, unit, data, tool, library, smooth_tool, fctb, items,
          existing_by_id, existing_by_sig, file_path, files,
          default_shape,
          tool_set,
          tools_dict,
          fctl,
          output_dir,
          attachment,
          filename,
          expected_hash,
          upload_url,
          shape_reference,
          base_dir,
          search_dirs,
          calls,
          frames,
          selected,
          idx,
          smooth_tools,
          tools_exported,
          errors,
          skipped,
          imported,
          posts,
          shapes_dir,
          written,
          file_content,
          file_hash,
          file_size, ret>>

----------------------------------------------------------------------------
(* Bounds of the model *)

\* number of tokens a text handed to the codec is built from
MaxTokens == 4

----------------------------------------------------------------------------
(* Python values *)

None == [t |-> "none"]
Str(s) == [t |-> "str", s |-> s]
PyInt(i) == [t |-> "int", i |-> i]
PyBool(b) == [t |-> "bool", b |-> b]
\* a float: sign and magnitude, the magnitude in units of 1/Scale
Float(neg, mag) == [t |-> "float", neg |-> neg, mag |-> mag]
\* a dict with text keys and insertion order: a sequence of [k, v] without repeated k
PyDict(its) == [t |-> "dict", items |-> its]
\* a dict whose keys are fixed names of the program: a function over those names
PyObj(f) == [t |-> "dict", f |-> f]
PyList(elems) == [t |-> "list", elems |-> elems]

\* the outcome of a call: a returned value or a raised exception
Return(v) == [ok |-> TRUE, val |-> v]
Raise(exc, info) == [ok |-> FALSE, exc |-> exc, info |-> info]
\* the value of a variable no call has set
Unset == [t |-> "unset"]

\* isinstance(v, str), isinstance(v, (int, float)): bool is a subclass of int
IsStr(v) == v.t = "str"
IsNumeric(v) == v.t \in {"int", "float", "bool"}
IsDict(v) == v.t = "dict"

----------------------------------------------------------------------------
(* Text *)

DigitChars == <<"0", "1", "2", "3", "4", "5", "6", "7", "8", "9">>
IsDigit(c) == \E i \in 1..10 : DigitChars[i] = c
DigitVal(c) == (CHOOSE i \in 1..10 : DigitChars[i] = c) - 1
\* str.strip() and the pattern's \s
IsSpace(c) == c \in {" ", "\n", "\t"}

RECURSIVE Pow10(_)
Pow10(n) == IF n = 0 THEN 1 ELSE 10 * Pow10(n - 1)

\* decimal digits kept after the point by the model of a float
FracDigits == MaxTokens - 1
Scale == Pow10(FracDigits)

RECURSIVE LStrip(_)
LStrip(s) == IF s # <<>> /\ IsSpace(Head(s)) THEN LStrip(Tail(s)) ELSE s
RECURSIVE RStrip(_)
RStrip(s) ==
    IF s # <<>> /\ IsSpace(s[Len(s)]) THEN RStrip(SubSeq(s, 1, Len(s) - 1)) ELSE s
\* str.strip()
Strip(s) == RStrip(LStrip(s))

\* sub in s
Contains(s, sub) ==
    \E i \in 1..(Len(s) - Len(sub) + 1) : SubSeq(s, i, i + Len(sub) - 1) = sub

\* the text from position i on
From(s, i) == SubSeq(s, i, Len(s))

\* length of the longest run of characters satisfying P that starts at position i
RECURSIVE DigitRun(_, _)
DigitRun(s, i) == IF i <= Len(s) /\ IsDigit(s[i]) THEN 1 + DigitRun(s, i + 1) ELSE 0
RECURSIVE SpaceRun(_, _)
SpaceRun(s, i) == IF i <= Len(s) /\ IsSpace(s[i]) THEN 1 + SpaceRun(s, i + 1) ELSE 0

\* the decimal digits of a natural number
RECURSIVE NatText(_)
NatText(n) == IF n < 10 THEN <<DigitChars[n + 1]>>
              ELSE NatText(n \div 10) \o <<DigitChars[(n % 10) + 1]>>
\* the value of a run of digits (0 for the empty run)
RECURSIVE DigitsVal(_)
DigitsVal(s) == IF s = <<>> THEN 0
                ELSE 10 * DigitsVal(SubSeq(s, 1, Len(s) - 1)) + DigitVal(s[Len(s)])
\* n written with at least w digits (zero padded on the left)
RECURSIVE Padded(_, _)
Padded(n, w) == IF w <= 1 THEN NatText(n)
                ELSE IF n < Pow10(w - 1) THEN <<"0">> \o Padded(n, w - 1)
                ELSE NatText(n)
RECURSIVE DropTrailingZeros(_)
DropTrailingZeros(s) ==
    IF Len(s) > 1 /\ s[Len(s)] = "0" THEN DropTrailingZeros(SubSeq(s, 1, Len(s) - 1))
    ELSE s

\* float(text) for a text of the form [-+]?[0-9]*\.?[0-9]+
float(text) ==
    LET signed == text # <<>> /\ text[1] \in {"-", "+"}
        body == IF signed THEN Tail(text) ELSE text
        a == DigitRun(body, 1)
        dotted == a < Len(body) /\ body[a + 1] = "."
        int_part == SubSeq(body, 1, a)
        frac == IF dotted THEN From(body, a + 2) ELSE <<>>
    IN  Float(signed /\ text[1] = "-",
              DigitsVal(int_part) * Scale
                + DigitsVal(frac) * Pow10(FracDigits - Len(frac)))

\* str(v) of a scalar
PyStr(v) ==
    CASE v.t = "str" -> v.s
      [] v.t = "none" -> <<"N", "o", "n", "e">>
      [] v.t = "bool" -> IF v.b THEN <<"T", "r", "u", "e">>
                         ELSE <<"F", "a", "l", "s", "e">>
      [] v.t = "int" -> (IF v.i < 0 THEN <<"-">> ELSE <<>>)
                          \o NatText(IF v.i < 0 THEN -v.i ELSE v.i)
      [] v.t = "float" -> (IF v.neg THEN <<"-">> ELSE <<>>)
                          \o NatText(v.mag \div Scale) \o <<".">>
                          \o DropTrailingZeros(Padded(v.mag % Scale, FracDigits))

\* f"{v:.2f}" of a number: two digits after the point, rounded to nearest
\* (the texts of the model never produce a decimal tie)
Format2f(v) ==
    CASE v.t = "float" ->
            LET step == Scale \div 100
                q == v.mag \div step
                r == v.mag % step
                h == IF 2 * r > step THEN q + 1 ELSE q
            IN  (IF v.neg THEN <<"-">> ELSE <<>>)
                  \o NatText(h \div 100) \o <<".">> \o Padded(h % 100, 2)
      [] v.t = "int" -> (IF v.i < 0 THEN <<"-">> ELSE <<>>)
                          \o NatText(IF v.i < 0 THEN -v.i ELSE v.i) \o <<".", "0", "0">>
      [] v.t = "bool" -> IF v.b THEN <<"1", ".", "0", "0">> ELSE <<"0", ".", "0", "0">>

----------------------------------------------------------------------------
(* UnitValueCodec: parse_parameter_value *)

\* The pattern ^([-+]?[0-9]*\.?[0-9]+)\s*(.+)$ applied by re.match to s.
\* A way to match is <<sg, a, dt, b, w>>: the lengths matched by [-+]?, [0-9]*,
\* \.?, [0-9]+ and \s*; (.+)$ takes the rest, which must be non-empty and hold no
\* line break ('.' matches none; after strip() the text does not end in one).
re_ways(s) ==
    LET signs == IF s # <<>> /\ s[1] \in {"-", "+"} THEN {0, 1} ELSE {0}
        dots(i) == IF i <= Len(s) /\ s[i] = "." THEN {0, 1} ELSE {0}
        rest_ok(i) == i <= Len(s) /\ \A j \in i..Len(s) : s[j] # "\n"
    IN  UNION {UNION {UNION {UNION {
            {<<sg, a, dt, b, w>> :
                w \in {x \in 0..SpaceRun(s, sg + a + dt + b + 1) :
                          rest_ok(sg + a + dt + b + x + 1)}}
            : b \in 1..DigitRun(s, sg + a + dt + 1)}
            : dt \in dots(sg + a + 1)}
            : a \in 0..DigitRun(s, sg + 1)}
            : sg \in signs}

\* x is tried before y by the backtracking matcher: every quantifier is greedy
re_before(x, y) ==
    \E i \in 1..5 : x[i] > y[i] /\ \A j \in 1..(i - 1) : x[j] = y[j]

\* re.match(...): the first way found, as <<group(1), group(2)>>, or None
re_match(s) ==
    LET ways == re_ways(s)
    IN  IF ways = {} THEN None
        ELSE LET m == CHOOSE x \in ways : \A y \in ways : y = x \/ re_before(x, y)
                 n == m[1] + m[2] + m[3] + m[4]
             IN  [t |-> "match", g1 |-> SubSeq(s, 1, n), g2 |-> From(s, n + m[5] + 1)]

\* any(c in unit_part for c in ['m', '°', 'in', 'deg'])
UnitIndicators == {<<"m">>, <<"°">>, <<"i", "n">>, <<"d", "e", "g">>}
looks_like_unit(unit_part) == \E c \in UnitIndicators : Contains(unit_part, c)

\* {"value": ..., "unit": ...}
UnitValue(v, u) == PyObj([value |-> v, unit |-> u])

\* a plausible slip: the pattern applied to the text as given, not to value.strip()
parse_parameter_value_unstripped(v) ==
    IF ~IsStr(v) THEN v
    ELSE LET match == re_match(v.s)
         IN  IF match # None /\ match.g2 # <<>> /\ looks_like_unit(match.g2)
             THEN UnitValue(float(match.g1), Str(Strip(match.g2)))
             ELSE v

parse_parameter_value(v) ==
    IF ~IsStr(v) THEN v
    ELSE LET match == re_match(Strip(v.s))
         IN  IF match # None /\ match.g2 # <<>> /\ looks_like_unit(match.g2)
             THEN UnitValue(float(match.g1), Str(Strip(match.g2)))
             ELSE v

----------------------------------------------------------------------------
(* UnitValueCodec: format_parameter_value *)

DegreeSign == <<"°">>

\* a plausible slip: the value and the unit joined without the space
format_parameter_value_nospace(v, u) ==
    IF u = None THEN Str(PyStr(v))
    ELSE IF IsNumeric(v) THEN Str(Format2f(v) \o PyStr(u))
    ELSE Str(PyStr(v))

format_parameter_value(v, u) ==
    IF u = None THEN Str(PyStr(v))
    ELSE IF IsNumeric(v)
         THEN IF u = Str(DegreeSign) THEN Str(Format2f(v) \o DegreeSign)
              ELSE Str(Format2f(v) \o <<" ">> \o PyStr(u))
    ELSE Str(PyStr(v))

----------------------------------------------------------------------------
(* Dicts, truth values and letter case *)

\* key in d, d[key] and d.get(key) (None when absent) for a dict of fixed names
Has(d, k) == k \in DOMAIN d.f
Get(d, k) == IF Has(d, k) THEN d.f[k] ELSE None
\* d.get(key, default)
GetOr(d, k, default) == IF Has(d, k) THEN d.f[k] ELSE default

\* the same for a dict with text keys, given as its sequence of items
KeysOf(its) == {its[i].k : i \in 1..Len(its)}
ValueAt(its, k) == its[CHOOSE i \in 1..Len(its) : its[i].k = k].v
\* d[k] = v: the value of an existing key is replaced in place, a new key is appended
RECURSIVE DictSet(_, _, _)
DictSet(its, k, v) ==
    IF its = <<>> THEN <<[k |-> k, v |-> v]>>
    ELSE IF Head(its).k = k THEN <<[k |-> k, v |-> v]>> \o Tail(its)
    ELSE <<Head(its)>> \o DictSet(Tail(its), k, v)

EmptyDict == PyDict(<<>>)

\* bool(v)
Truthy(v) ==
    CASE v.t = "none" -> FALSE
      [] v.t = "str" -> v.s # <<>>
      [] v.t = "int" -> v.i # 0
      [] v.t = "float" -> v.mag # 0
      [] v.t = "bool" -> v.b
      [] v.t = "list" -> v.elems # <<>>
      [] v.t = "dict" -> IF "f" \in DOMAIN v THEN DOMAIN v.f # {} ELSE v.items # <<>>

\* a or b
PyOr(a, b) == IF Truthy(a) THEN a ELSE b

LowerChars == <<"a", "b", "c", "d", "e", "f", "g", "h", "i", "j", "k", "l", "m",
                "n", "o", "p", "q", "r", "s", "t", "u", "v", "w", "x", "y", "z">>
UpperChars == <<"A", "B", "C", "D", "E", "F", "G", "H", "I", "J", "K", "L", "M",
                "N", "O", "P", "Q", "R", "S", "T", "U", "V", "W", "X", "Y", "Z">>
IsUpper(c) == \E i \in 1..26 : UpperChars[i] = c
IsLower(c) == \E i \in 1..26 : LowerChars[i] = c
\* c.lower(), c.upper()
Lower(c) == IF IsUpper(c) THEN LowerChars[CHOOSE i \in 1..26 : UpperChars[i] = c] ELSE c
Upper(c) == IF IsLower(c) THEN UpperChars[CHOOSE i \in 1..26 : LowerChars[i] = c] ELSE c
\* s.lower()
LowerText(s) == [i \in 1..Len(s) |-> Lower(s[i])]
\* s.title(): a letter is upper-cased after a character that is no letter, lower-cased after a letter
TitleText(s) ==
    [i \in 1..Len(s) |->
        IF i = 1 \/ ~(IsUpper(s[i - 1]) \/ IsLower(s[i - 1])) THEN Upper(s[i])
        ELSE Lower(s[i])]

\* s.split('_')
RECURSIVE Split(_)
Split(s) ==
    IF \A i \in 1..Len(s) : s[i] # "_" THEN <<s>>
    ELSE LET i == CHOOSE j \in 1..Len(s) : s[j] = "_" /\ \A h \in 1..(j - 1) : s[h] # "_"
         IN  <<SubSeq(s, 1, i - 1)>> \o Split(From(s, i + 1))
\* ''.join(parts)
RECURSIVE Join(_)
Join(parts) == IF parts = <<>> THEN <<>> ELSE Head(parts) \o Join(Tail(parts))

UnitSuffix == <<"_", "u", "n", "i", "t">>
\* key.endswith('_unit')
EndsWithUnit(key) ==
    Len(key) >= Len(UnitSuffix)
      /\ SubSeq(key, Len(key) - Len(UnitSuffix) + 1, Len(key)) = UnitSuffix

----------------------------------------------------------------------------
(* NativeDocumentParser: parse_fctb_dict *)

required_fields == <<"version", "name", "shape", "shape-type", "parameter">>

\* the text of a top-level field name
FieldText(field) ==
    CASE field = "version" -> <<"v", "e", "r", "s", "i", "o", "n">>
      [] field = "name" -> <<"n", "a", "m", "e">>
      [] field = "shape" -> <<"s", "h", "a", "p", "e">>
      [] field = "shape-type" -> <<"s", "h", "a", "p", "e", "-", "t", "y", "p", "e">>
      [] field = "parameter" -> <<"p", "a", "r", "a", "m", "e", "t", "e", "r">>
      [] field = "tools" -> <<"t", "o", "o", "l", "s">>

\* whether `field in container` can be evaluated (it is a TypeError for a number, a bool or None)
SupportsIn(container) == container.t \in {"dict", "list", "str"}
\* field in container: a key of a dict, an element of a list, a substring of a text
In(field, container) ==
    CASE container.t = "dict" -> Has(container, field)
      [] container.t = "list" ->
            \E i \in 1..Len(container.elems) : container.elems[i] = Str(FieldText(field))
      [] container.t = "str" -> Contains(container.s, FieldText(field))

\* [field for field in fields if field not in data]
Missing(fields, d) == SelectSeq(fields, LAMBDA field : ~In(field, d))

\* {key: parse_parameter_value(value) for key, value in parameter.items()}
ParsedParameters(parameter) ==
    PyDict([i \in 1..Len(parameter.items) |->
               [k |-> parameter.items[i].k,
                v |-> parse_parameter_value(parameter.items[i].v)]])

\* a plausible slip: the check stops at the first missing field
parse_fctb_dict_first_missing(d) ==
    IF ~SupportsIn(d) THEN Raise("TypeError", "argument is not iterable")
    ELSE IF Missing(required_fields, d) # <<>>
    THEN Raise("FctbParseError", <<Head(Missing(required_fields, d))>>)
    ELSE IF ~IsDict(d) THEN Raise("TypeError", "indices must be integers")
    ELSE IF ~IsDict(d.f["parameter"]) THEN Raise("AttributeError", "items")
    ELSE Return(PyObj([version |-> d.f["version"], id |-> Get(d, "id"),
                       name |-> d.f["name"], shape |-> d.f["shape"],
                       shape_type |-> d.f["shape-type"],
                       parameters |-> ParsedParameters(d.f["parameter"]),
                       attribute |-> GetOr(d, "attribute", EmptyDict),
                       _original |-> d]))

\* a plausible slip: the retained original keeps only the fields the parser knows
parse_fctb_dict_known_only(d) ==
    IF ~SupportsIn(d) THEN Raise("TypeError", "argument is not iterable")
    ELSE IF Missing(required_fields, d) # <<>>
    THEN Raise("FctbParseError", Missing(required_fields, d))
    ELSE IF ~IsDict(d) THEN Raise("TypeError", "indices must be integers")
    ELSE IF ~IsDict(d.f["parameter"]) THEN Raise("AttributeError", "items")
    ELSE Return(PyObj([version |-> d.f["version"], id |-> Get(d, "id"),
                       name |-> d.f["name"], shape |-> d.f["shape"],
                       shape_type |-> d.f["shape-type"],
                       parameters |-> ParsedParameters(d.f["parameter"]),
                       attribute |-> GetOr(d, "attribute", EmptyDict),
                       _original |->
                           PyObj([k \in DOMAIN d.f \cap
                                       {"version", "id", "name", "shape", "shape-type",
                                        "parameter", "attribute"} |-> d.f[k]])]))

parse_fctb_dict(d) ==
    IF ~SupportsIn(d) THEN Raise("TypeError", "argument is not iterable")
    ELSE IF Missing(required_fields, d) # <<>>
    THEN Raise("FctbParseError", Missing(required_fields, d))
    \* data["parameter"] of a list or a text that holds all five names
    ELSE IF ~IsDict(d) THEN Raise("TypeError", "indices must be integers")
    \* data["parameter"].items()
    ELSE IF ~IsDict(d.f["parameter"]) THEN Raise("AttributeError", "items")
    ELSE Return(PyObj([version |-> d.f["version"], id |-> Get(d, "id"),
                       name |-> d.f["name"], shape |-> d.f["shape"],
                       shape_type |-> d.f["shape-type"],
                       parameters |-> ParsedParameters(d.f["parameter"]),
                       attribute |-> GetOr(d, "attribute", EmptyDict),
                       _original |-> d]))

----------------------------------------------------------------------------
(* FormatConverter: fctb_to_smooth *)

MaterialKey == <<"M", "a", "t", "e", "r", "i", "a", "l">>
CuttingTool == <<"c", "u", "t", "t", "i", "n", "g", "_", "t", "o", "o", "l">>
ProbeType == <<"p", "r", "o", "b", "e">>
ProbeShape == <<"P", "r", "o", "b", "e">>
EndmillShape == <<"E", "n", "d", "m", "i", "l", "l">>
\* the shape types shape_type_map sends to "cutting_tool"
CuttingShapes == {<<"D", "r", "i", "l", "l">>,
                  <<"E", "n", "d", "m", "i", "l", "l">>,
                  <<"B", "a", "l", "l", "e", "n", "d">>,
                  <<"V", "B", "i", "t">>,
                  <<"T", "h", "r", "e", "a", "d", "M", "i", "l", "l">>,
                  <<"C", "h", "a", "m", "f", "e", "r", "M", "i", "l", "l">>,
                  <<"C", "o", "r", "n", "e", "r", "R", "o", "u", "n", "d">>,
                  <<"R", "e", "a", "m", "e", "r">>,
                  <<"S", "p", "o", "t", "t", "i", "n", "g", "D", "r", "i", "l", "l">>,
                  <<"S", "u", "r", "f", "a", "c", "i", "n", "g", "B", "i", "t">>}

\* shape_type_map.get(freecad_shape_type, "cutting_tool")
map_shape_type(freecad_shape_type) ==
    IF IsStr(freecad_shape_type) /\ freecad_shape_type.s \in CuttingShapes THEN Str(CuttingTool)
    ELSE IF freecad_shape_type = Str(ProbeShape) THEN Str(ProbeType)
    ELSE Str(CuttingTool)

\* key[0].lower() + key[1:], then '_' inserted before every capital letter that is
\* not the first character, then lower()
to_snake(key) ==
    LET first == <<Lower(key[1])>> \o Tail(key)
        piece(i) == IF i > 1 /\ IsUpper(first[i]) THEN <<"_", first[i]>> ELSE <<first[i]>>
    IN  LowerText(Join([i \in 1..Len(first) |-> piece(i)]))

\* isinstance(value, dict) and "value" in value
HasValueKey(v) == IsDict(v) /\ "f" \in DOMAIN v /\ Has(v, "value")

\* the loop over params.items() that fills geometry
RECURSIVE geometry_loop(_, _)
geometry_loop(params, geometry) ==
    IF params = <<>> THEN Return(PyDict(geometry))
    ELSE LET key == Head(params).k
             val == Head(params).v
         IN  IF key = MaterialKey THEN geometry_loop(Tail(params), geometry)
             ELSE IF key = <<>> THEN Raise("IndexError", "string index out of range")
             ELSE IF HasValueKey(val)
             THEN IF ~Has(val, "unit") THEN Raise("KeyError", "unit")
                  ELSE geometry_loop(Tail(params),
                          DictSet(DictSet(geometry, to_snake(key), val.f["value"]),
                                  to_snake(key) \o UnitSuffix, val.f["unit"]))
             ELSE geometry_loop(Tail(params), DictSet(geometry, to_snake(key), val))

fctb_to_smooth(t) ==
    LET params == t.f["parameters"].items
        geometry == geometry_loop(params, <<>>)
        material == IF MaterialKey \in KeysOf(params)
                    THEN PyObj([type |-> ValueAt(params, MaterialKey)])
                    ELSE None
        shape_data ==
            IF Truthy(t.f["shape"])
            THEN PyObj([format |-> Str(<<"f", "c", "s", "t", "d">>),
                        source_system |-> Str(<<"f", "r", "e", "e", "c", "a", "d">>),
                        reference |-> PyObj([type |-> Str(<<"l", "o", "c", "a", "l", "_", "p", "a", "t", "h">>),
                                             value |-> t.f["shape"]]),
                        metadata |-> PyObj([shape_type |-> t.f["shape_type"],
                                            original_reference |-> t.f["shape"]])])
            ELSE None
    IN  IF ~geometry.ok THEN geometry
        ELSE Return(PyObj([type |-> map_shape_type(t.f["shape_type"]),
                           description |-> t.f["name"],
                           geometry |-> geometry.val,
                           material |-> material,
                           shape_data |-> shape_data,
                           freecad_metadata |->
                               PyObj([shape |-> t.f["shape"],
                                      shape_type |-> t.f["shape_type"],
                                      id |-> Get(t, "id"),
                                      version |-> t.f["version"]])]))

----------------------------------------------------------------------------
(* FormatConverter: smooth_to_fctb *)

\* a plausible slip: every type reversed to the default shape type
reverse_map_shape_type_default(smooth_type) == Str(EndmillShape)

\* type_map.get(smooth_type, "Endmill")
reverse_map_shape_type(smooth_type) ==
    IF smooth_type = Str(ProbeType) THEN Str(ProbeShape)
    ELSE IF smooth_type = Str(CuttingTool) THEN Str(EndmillShape)
    ELSE Str(EndmillShape)

\* ''.join(x.title() for x in snake_str.split('_'))
snake_to_camel(snake_str) ==
    Join([i \in 1..Len(Split(snake_str)) |-> TitleText(Split(snake_str)[i])])

\* the geometry keys that must come with a unit
DimensionalKeys == {<<"d", "i", "a", "m", "e", "t", "e", "r">>,
                    <<"l", "e", "n", "g", "t", "h">>,
                    <<"h", "e", "i", "g", "h", "t">>,
                    <<"a", "n", "g", "l", "e">>,
                    <<"t", "i", "p", "_", "a", "n", "g", "l", "e">>,
                    <<"c", "u", "t", "t", "i", "n", "g", "_", "e", "d", "g", "e", "_", "h", "e", "i", "g", "h", "t">>,
                    <<"s", "h", "a", "n", "k", "_", "d", "i", "a", "m", "e", "t", "e", "r">>}

EmptyObj == PyObj(<<>>)
DefaultShape == <<"e", "n", "d", "m", "i", "l", "l">>
FcstdSuffix == <<".", "f", "c", "s", "t", "d">>
UnnamedTool == <<"U", "n", "n", "a", "m", "e", "d", " ", "T", "o", "o", "l">>

\* the loop over geometry.items() that fills parameters; rest: the items still to
\* visit, all: every item of geometry
RECURSIVE parameter_loop(_, _, _, _)
parameter_loop(rest, all, parameters, processed_keys) ==
    IF rest = <<>> THEN Return(parameters)
    ELSE LET key == Head(rest).k
             val == Head(rest).v
             unit_key == key \o UnitSuffix
         IN  IF EndsWithUnit(key) \/ key \in processed_keys
             THEN parameter_loop(Tail(rest), all, parameters, processed_keys)
             ELSE IF unit_key \in KeysOf(all)
             THEN parameter_loop(Tail(rest), all,
                      DictSet(parameters, snake_to_camel(key),
                              format_parameter_value(val, ValueAt(all, unit_key))),
                      processed_keys \cup {key, unit_key})
             ELSE IF IsNumeric(val)
             THEN IF key \in DimensionalKeys
                  THEN Raise("ValueError", [key |-> key, unit_key |-> unit_key])
                  ELSE parameter_loop(Tail(rest), all,
                           DictSet(parameters, snake_to_camel(key), val),
                           processed_keys \cup {key})
             ELSE parameter_loop(Tail(rest), all,
                      DictSet(parameters, snake_to_camel(key), Str(PyStr(val))),
                      processed_keys \cup {key})

\* the shape type of the metadata, else the reverse mapping of the item's type
shape_type_of(st, metadata) ==
    IF Has(metadata, "shape_type") THEN metadata.f["shape_type"]
    ELSE reverse_map_shape_type(GetOr(st, "type", Str(CuttingTool)))

\* a plausible slip: the original reference looked at before the reference value
shape_file_of_original_first(metadata, shape_data, dflt) ==
    LET shape_ref == GetOr(shape_data, "reference", EmptyObj)
        original == Get(GetOr(shape_data, "metadata", EmptyObj), "original_reference")
        shape_file ==
            IF ~Truthy(Get(metadata, "shape")) /\ Truthy(shape_data)
            THEN IF Truthy(original) THEN original
                 ELSE IF Truthy(Get(shape_ref, "value")) THEN shape_ref.f["value"]
                 ELSE Get(metadata, "shape")
            ELSE Get(metadata, "shape")
    IN  IF ~Truthy(shape_file) THEN Str(dflt \o FcstdSuffix) ELSE shape_file

\* the shape file of the metadata, else the one of shape_data, else the default
shape_file_of(metadata, shape_data, dflt) ==
    LET shape_ref == GetOr(shape_data, "reference", EmptyObj)
        shape_file ==
            IF ~Truthy(Get(metadata, "shape")) /\ Truthy(shape_data)
            THEN IF Truthy(Get(shape_ref, "value")) THEN shape_ref.f["value"]
                 ELSE IF Truthy(Get(GetOr(shape_data, "metadata", EmptyObj),
                                    "original_reference"))
                 THEN shape_data.f["metadata"].f["original_reference"]
                 ELSE Get(metadata, "shape")
            ELSE Get(metadata, "shape")
    IN  IF ~Truthy(shape_file) THEN Str(dflt \o FcstdSuffix) ELSE shape_file

\* fctb["id"] is set from the metadata, else from the item, else not at all
set_id(base, st, metadata) ==
    IF Has(metadata, "id") THEN ("id" :> metadata.f["id"]) @@ base
    ELSE IF Has(st, "id") THEN ("id" :> st.f["id"]) @@ base
    ELSE base

smooth_to_fctb(st, dflt) ==
    LET geometry == GetOr(st, "geometry", EmptyDict)
        material == PyOr(Get(st, "material"), EmptyObj)
        metadata == PyOr(Get(st, "freecad_metadata"), EmptyObj)
        shape_data == PyOr(Get(st, "shape_data"), EmptyObj)
        looped == parameter_loop(geometry.items, geometry.items, <<>>, {})
        parameters == IF Truthy(Get(material, "type"))
                      THEN DictSet(looped.val, MaterialKey, material.f["type"])
                      ELSE looped.val
        base == [k \in {"version", "name", "shape", "shape-type", "parameter", "attribute"} |->
                    CASE k = "version" -> GetOr(metadata, "version", PyInt(2))
                      [] k = "name" -> GetOr(st, "description", Str(UnnamedTool))
                      [] k = "shape" -> shape_file_of(metadata, shape_data, dflt)
                      [] k = "shape-type" -> shape_type_of(st, metadata)
                      [] k = "parameter" -> PyDict(parameters)
                      [] k = "attribute" -> EmptyDict]
    IN  \* geometry.items() of a value that is no dict
        IF ~(IsDict(geometry) /\ "items" \in DOMAIN geometry)
        THEN Raise("AttributeError", "items")
        ELSE IF ~looped.ok THEN looped
        ELSE Return(PyObj(set_id(base, st, metadata)))

----------------------------------------------------------------------------
(* NativeDocumentParser: parse_fctl_dict, parse_fctb, parse_fctl *)

fctl_required_fields == <<"version", "tools">>

\* a plausible slip: the name field taken before the label field
parse_fctl_dict_name_first(d) ==
    IF ~SupportsIn(d) THEN Raise("TypeError", "argument is not iterable")
    ELSE IF Missing(fctl_required_fields, d) # <<>>
    THEN Raise("FctlParseError", Missing(fctl_required_fields, d))
    ELSE IF ~IsDict(d) THEN Raise("TypeError", "indices must be integers")
    ELSE IF d.f["tools"].t # "list" THEN Raise("FctlParseError", <<"tools">>)
    ELSE Return(PyObj([version |-> d.f["version"],
                       label |-> PyOr(Get(d, "name"), Get(d, "label")),
                       tools |-> d.f["tools"],
                       _original |-> d]))

parse_fctl_dict(d) ==
    IF ~SupportsIn(d) THEN Raise("TypeError", "argument is not iterable")
    ELSE IF Missing(fctl_required_fields, d) # <<>>
    THEN Raise("FctlParseError", Missing(fctl_required_fields, d))
    \* data["tools"] of a list or a text that holds both names
    ELSE IF ~IsDict(d) THEN Raise("TypeError", "indices must be integers")
    ELSE IF d.f["tools"].t # "list" THEN Raise("FctlParseError", <<"tools">>)
    ELSE Return(PyObj([version |-> d.f["version"],
                       label |-> PyOr(Get(d, "label"), Get(d, "name")),
                       tools |-> d.f["tools"],
                       _original |-> d]))

\* The content of a file: none (no such file), unreadable (open() or read()
\* fails), text that is no JSON, or the value json.load returns.
NoFile == [kind |-> "absent"]
Unreadable == [kind |-> "unreadable"]
NotJson == [kind |-> "malformed"]
JsonFile(v) == [kind |-> "json", value |-> v]

\* with open(file_path) as f: data = json.load(f), both failures wrapped in the
\* parser's own error; then the *_dict parser, outside the try block
parse_fctb(path, fs) ==
    IF fs[path].kind = "malformed" THEN Raise("FctbParseError", "Invalid JSON")
    ELSE IF fs[path].kind # "json" THEN Raise("FctbParseError", "Error reading")
    ELSE parse_fctb_dict(fs[path].value)

parse_fctl(path, fs) ==
    IF fs[path].kind = "malformed" THEN Raise("FctlParseError", "Invalid JSON")
    ELSE IF fs[path].kind # "json" THEN Raise("FctlParseError", "Error reading")
    ELSE parse_fctl_dict(fs[path].value)

----------------------------------------------------------------------------
(* LibraryConverter: load_library_with_tools, library_to_smooth_tool_set, *)
(* check_tool_number_uniqueness, smooth_to_fctl                            *)

\* A name bound to a mapping: val is the mapping, alias tells whether it is the
\* very object the caller passed in, so that a store through the name shows in
\* the caller's value.
\* a plausible slip: no copy is taken, the name is bound to the argument itself
no_copy(d) == [alias |-> TRUE, val |-> d]
\* d.copy(): a new mapping with the entries of d
copy(d) == [alias |-> FALSE, val |-> d]
\* name[k] = v
store(name, k, v) == [name EXCEPT !.val = PyObj((k :> v) @@ name.val.f)]
\* the caller's mapping after the stores through the name
Left(name, passed) == IF name.alias THEN name.val ELSE passed

\* str(e) of a caught parse error
ErrorText(info) == [t |-> "str", message |-> info]

\* tool_path.exists() for bits_dir / path
Exists(path, fs) == path \in DOMAIN fs /\ fs[path].kind # "absent"

\* the branches of the loop body after the tool bit file was looked up: exists
\* tells whether the file exists, parsed is the outcome of parse_fctb on it
entry_loaded(tool_entry, loaded_entry, exists, parsed) ==
    IF ~exists
    THEN [out |-> Return(store(loaded_entry, "resolved", PyBool(FALSE)).val),
          arg |-> Left(store(loaded_entry, "resolved", PyBool(FALSE)), tool_entry)]
    ELSE IF parsed.ok
    THEN [out |-> Return(store(store(loaded_entry, "tool_data", parsed.val),
                               "resolved", PyBool(TRUE)).val),
          arg |-> Left(store(store(loaded_entry, "tool_data", parsed.val),
                             "resolved", PyBool(TRUE)), tool_entry)]
    ELSE IF parsed.exc = "FctbParseError"
    THEN [out |-> Return(store(store(loaded_entry, "error", ErrorText(parsed.info)),
                               "resolved", PyBool(FALSE)).val),
          arg |-> Left(store(store(loaded_entry, "error", ErrorText(parsed.info)),
                             "resolved", PyBool(FALSE)), tool_entry)]
    \* any other exception of parse_fctb escapes
    ELSE [out |-> parsed, arg |-> Left(loaded_entry, tool_entry)]

\* the body of the loop of load_library_with_tools for one entry: the loaded
\* entry, or the error that escapes; and the entry of the library as it is left
load_entry(tool_entry, fs) ==
    IF ~Has(tool_entry, "path")
    THEN [out |-> Raise("KeyError", "path"), arg |-> Left(copy(tool_entry), tool_entry)]
    ELSE entry_loaded(tool_entry, copy(tool_entry), Exists(tool_entry.f["path"].s, fs),
                      IF Exists(tool_entry.f["path"].s, fs)
                      THEN parse_fctb(tool_entry.f["path"].s, fs) ELSE Return(None))

\* the loop over library["tools"]: the loaded entries so far, the entries of the
\* library as they are left, and the error that ended the loop, if any
RECURSIVE load_loop(_, _, _, _)
\* the loop after the body has run for the first of the entries still to visit
loop_step(e, rest, fs, loaded_tools, left) ==
    IF ~e.out.ok THEN [out |-> e.out, arg |-> left \o <<e.arg>> \o rest]
    ELSE load_loop(rest, fs, Append(loaded_tools, e.out.val), Append(left, e.arg))

load_loop(rest, fs, loaded_tools, left) ==
    IF rest = <<>> THEN [out |-> Return(loaded_tools), arg |-> left]
    ELSE loop_step(load_entry(Head(rest), fs), Tail(rest), fs, loaded_tools, left)

\* loaded_library["tools"] = loaded_tools, after the loop has ended
library_loaded(lib, loaded_library, loop) ==
    IF ~loop.out.ok
    THEN [out |-> loop.out, arg |-> PyObj(("tools" :> PyList(loop.arg)) @@ lib.f)]
    ELSE [out |-> Return(PyObj(("tools" :> PyList(loop.out.val)) @@ lib.f)),
          arg |-> IF loaded_library.alias
                  THEN PyObj(("tools" :> PyList(loop.out.val)) @@ lib.f)
                  ELSE PyObj(("tools" :> PyList(loop.arg)) @@ lib.f)]

\* out: what the call returns or raises; arg: the library passed in, after the call
load_library_with_tools(lib, fs) ==
    library_loaded(lib, copy(lib), load_loop(lib.f["tools"].elems, fs, <<>>, <<>>))

LibraryPrefix == <<"F", "r", "e", "e", "C", "A", "D", " ", "t", "o", "o", "l", " ", "l", "i", "b", "r", "a", "r", "y", ":", " ">>

\* one item of the tool set for a loaded entry
tool_item(tool_entry) ==
    IF Truthy(Get(tool_entry, "resolved")) /\ Has(tool_entry, "tool_data")
    THEN PyObj([tool_number |-> tool_entry.f["nr"], tool_path |-> tool_entry.f["path"],
                tool_data |-> tool_entry.f["tool_data"]])
    ELSE PyObj([tool_number |-> tool_entry.f["nr"], tool_path |-> tool_entry.f["path"]])

\* the tool set built from the loaded library
tool_set_of(lib, loaded) ==
    IF ~loaded.out.ok THEN loaded
    ELSE IF \E i \in 1..Len(loaded.out.val.f["tools"].elems) :
                ~Has(loaded.out.val.f["tools"].elems[i], "nr")
    THEN [out |-> Raise("KeyError", "nr"), arg |-> loaded.arg]
    ELSE [out |-> Return(PyObj(
              [name |-> lib.f["label"],
               description |-> Str(LibraryPrefix \o PyStr(lib.f["label"])),
               tools |-> PyList([i \in 1..Len(loaded.out.val.f["tools"].elems) |->
                                    tool_item(loaded.out.val.f["tools"].elems[i])]),
               freecad_metadata |-> PyObj([version |-> lib.f["version"],
                                           original_label |-> lib.f["label"]])])),
          arg |-> loaded.arg]

library_to_smooth_tool_set(lib, fs) == tool_set_of(lib, load_library_with_tools(lib, fs))

\* a plausible slip: the number of every entry whose number occurs again, once
\* per entry
check_tool_number_uniqueness_per_entry(lib) ==
    LET tools == lib.f["tools"].elems
        nr(i) == tools[i].f["nr"]
        more == SelectSeq([i \in 1..Len(tools) |-> i],
                          LAMBDA i : \E j \in 1..Len(tools) : j # i /\ nr(j) = nr(i))
    IN  IF \E i \in 1..Len(tools) : ~Has(tools[i], "nr") THEN Raise("KeyError", "nr")
        ELSE Return(PyList([k \in 1..Len(more) |-> nr(more[k])]))

\* [nr for nr, count in Counter(tool_numbers).items() if count > 1]: the numbers
\* that occur more than once, in the order of their first occurrence
check_tool_number_uniqueness(lib) ==
    LET tools == lib.f["tools"].elems
        nr(i) == tools[i].f["nr"]
        first == SelectSeq([i \in 1..Len(tools) |-> i],
                           LAMBDA i : \A j \in 1..(i - 1) : nr(j) # nr(i))
        more == SelectSeq(first, LAMBDA i : \E j \in (i + 1)..Len(tools) : nr(j) = nr(i))
    IN  IF \E i \in 1..Len(tools) : ~Has(tools[i], "nr") THEN Raise("KeyError", "nr")
        ELSE Return(PyList([k \in 1..Len(more) |-> nr(more[k])]))

ToolPrefix == <<"t", "o", "o", "l", "_">>
FctbSuffix == <<".", "f", "c", "t", "b">>
UnnamedLibrary == <<"U", "n", "n", "a", "m", "e", "d", " ", "L", "i", "b", "r", "a", "r", "y">>
\* f"tool_{tool_number}.fctb"
tool_file(tool_number) == Str(ToolPrefix \o PyStr(tool_number) \o FctbSuffix)

\* the entry of the library for a member of the tool set
member_entry(member) ==
    PyObj([nr |-> Get(member, "tool_number"),
           path |-> PyOr(Get(member, "tool_path"), tool_file(Get(member, "tool_number")))])

\* a plausible slip: the items of tools_dict taken in the order they were inserted
unsorted(its) == its

\* sorted(tools_dict.items()): the items in ascending order of their keys
RECURSIVE sorted(_)
sorted(its) ==
    IF its = <<>> THEN <<>>
    ELSE LET i == CHOOSE j \in 1..Len(its) : \A h \in 1..Len(its) : its[j].k.i <= its[h].k.i
         IN  <<its[i]>> \o sorted(SubSeq(its, 1, i - 1) \o SubSeq(its, i + 1, Len(its)))

smooth_to_fctl(ts, td) ==
    LET metadata == PyOr(Get(ts, "freecad_metadata"), EmptyObj)
        listed(k) == [i \in 1..Len(ts.f[k].elems) |-> member_entry(ts.f[k].elems[i])]
        tools == IF Has(ts, "members") THEN listed("members")
                 ELSE IF Has(ts, "tools") THEN listed("tools")
                 ELSE IF Truthy(td)
                 THEN [i \in 1..Len(td.items) |->
                          PyObj([nr |-> sorted(td.items)[i].k,
                                 path |-> tool_file(sorted(td.items)[i].k)])]
                 ELSE <<>>
    IN  Return(PyObj([version |-> GetOr(metadata, "version", PyInt(1)),
                      label |-> PyOr(Get(ts, "name"), Str(UnnamedLibrary)),
                      tools |-> PyList(tools)]))

----------------------------------------------------------------------------
(* LibraryExporter: write_fctb, write_fctl, export_toolset_to_freecad *)

\* A directory: whether it exists, and the value json.dump wrote to each of its files
Directory(exists, entries) == [exists |-> exists, entries |-> entries]
\* output_dir.mkdir(parents=True, exist_ok=True)
mkdir(dir) == Directory(TRUE, dir.entries)
\* with open(output_dir / path, 'w') as f: json.dump(v, f): the file is created or replaced
write(dir, path, v) == Directory(dir.exists, (path :> JsonFile(v)) @@ dir.entries)

\* the path lies in the directory itself: the directories here have no
\* subdirectories, and the empty path names the directory
Writable(path) == path # <<>> /\ \A i \in 1..Len(path) : path[i] # "/"
\* write_fctb, write_fctl: every failure of open() or json.dump comes out as
\* IOError
write_file(dir, path, v) ==
    IF Writable(path) THEN [out |-> Return(None), dir |-> write(dir, path, v)]
    ELSE [out |-> Raise("OSError", "Error writing"), dir |-> dir]

\* the body of the loop over library["tools"], the conversion done
entry_converted(tool_entry, converted, dir) ==
    IF ~converted.ok THEN [out |-> converted, dir |-> dir]
    ELSE write_file(dir, tool_entry.f["path"].s, converted.val)
\* the body of the loop for one entry
export_entry(tool_entry, td, dir) ==
    IF tool_entry.f["nr"] \notin KeysOf(td.items)
    THEN [out |-> Raise("ValueError", tool_entry.f["nr"]), dir |-> dir]
    ELSE entry_converted(tool_entry,
                         smooth_to_fctb(ValueAt(td.items, tool_entry.f["nr"]), DefaultShape), dir)

\* the loop over library["tools"]: the directory as the loop leaves it, and the
\* error that ended it, if any
RECURSIVE export_loop(_, _, _)
\* the loop after the body has run for the first of the entries
export_next(done, rest, td) ==
    IF ~done.out.ok THEN done ELSE export_loop(rest, td, done.dir)
export_loop(entries, td, dir) ==
    IF entries = <<>> THEN [out |-> Return(None), dir |-> dir]
    ELSE export_next(export_entry(Head(entries), td, dir), Tail(entries), td)

DefaultLibraryName == <<"l", "i", "b", "r", "a", "r", "y">>
FctlSuffix == <<".", "f", "c", "t", "l">>
\* text.replace(" ", "_")
Underscored(t) == [i \in 1..Len(t) |-> IF t[i] = " " THEN "_" ELSE t[i]]

\* the code after the loop: the library file is named after the tool set and
\* written
library_written(ts, lib, dir) ==
    LET name == GetOr(ts, "name", Str(DefaultLibraryName))
        library_path == LowerText(Underscored(name.s)) \o FctlSuffix
    IN  IF ~IsStr(name) THEN [out |-> Raise("AttributeError", "replace"), dir |-> dir]
        ELSE IF ~Writable(library_path) THEN write_file(dir, library_path, lib)
        ELSE [out |-> Return(Str(library_path)), dir |-> write_file(dir, library_path, lib).dir]

\* out: the path returned, relative to output_dir, or the error raised;
\* dir: the output directory after the call
toolset_exported(ts, lib, looped) ==
    IF ~looped.out.ok THEN looped ELSE library_written(ts, lib, looped.dir)
export_toolset_to_freecad(ts, td, dir) ==
    toolset_exported(ts, smooth_to_fctl(ts, td).val,
                     export_loop(smooth_to_fctl(ts, td).val.f["tools"].elems, td, mkdir(dir)))

----------------------------------------------------------------------------
(* ShapeStorage: download_and_save_shape *)

Base64Alphabet == <<"A", "B", "C", "D", "E", "F", "G", "H", "I", "J", "K", "L", "M", "N", "O", "P",
                 "Q", "R", "S", "T", "U", "V", "W", "X", "Y", "Z", "a", "b", "c", "d", "e", "f",
                 "g", "h", "i", "j", "k", "l", "m", "n", "o", "p", "q", "r", "s", "t", "u", "v",
                 "w", "x", "y", "z", "0", "1", "2", "3", "4", "5", "6", "7", "8", "9", "+", "/">>
IsBase64(c) == \E i \in 1..64 : Base64Alphabet[i] = c
\* the six bits a character stands for, most significant first
Sextet(c) ==
    LET n == (CHOOSE i \in 1..64 : Base64Alphabet[i] = c) - 1
    IN  [b \in 1..6 |-> (n \div (2 ^ (6 - b))) % 2]
RECURSIVE Bits(_)
Bits(s) == IF s = <<>> THEN <<>> ELSE Sextet(Head(s)) \o Bits(Tail(s))
\* the byte at bits 8k-7 .. 8k
ByteAt(bits, k) ==
    LET b(j) == bits[8 * (k - 1) + j]
    IN  128 * b(1) + 64 * b(2) + 32 * b(3) + 16 * b(4) + 8 * b(5) + 4 * b(6) + 2 * b(7) + b(8)
\* base64.b64decode(text) of a text of alphabet characters followed by padding:
\* every full group of four characters gives three bytes; a last group of two
\* or three characters gives one or two bytes and must be padded to four; a
\* last group of one character is an error
b64decode(content) ==
    IF ~IsStr(content) THEN Raise("TypeError", "bytes-like object or ASCII string")
    ELSE LET text == content.s
             data_chars == SelectSeq(text, IsBase64)
             pads == Len(text) - Len(data_chars)
             last == Len(data_chars) % 4
         IN  IF last = 1 \/ (last # 0 /\ pads < 4 - last) THEN Raise("Error", "padding")
             ELSE Return([k \in 1..((Len(data_chars) * 6) \div 8) |-> ByteAt(Bits(data_chars), k)])

BytesFile(bytes) == [kind |-> "bytes", value |-> bytes]
\* with open(output_path, 'wb') as f: f.write(file_content)
write_bytes(dir, path, bytes) == Directory(dir.exists, (path :> BytesFile(bytes)) @@ dir.entries)

Inline == <<"i", "n", "l", "i", "n", "e">>
ShapePrefix == <<"s", "h", "a", "p", "e", ".">>
FcstdFormat == <<"f", "c", "s", "t", "d">>

\* reference.get("type") == "inline" and "content" in reference
has_inline_content(reference) ==
    Get(reference, "type") = Str(Inline) /\ Has(reference, "content")

\* out: the path returned, relative to output_dir, None, or the error raised;
\* dir: the output directory after the call
download_and_save_shape(sd, dir, fname) ==
    LET reference == GetOr(sd, "reference", EmptyObj)
        decoded ==        b64decode(reference.f["content"])
        metadata == GetOr(sd, "metadata", EmptyObj)
        original_name == Get(metadata, "filename")
        generated == IF Truthy(original_name) THEN original_name
                     ELSE Str(ShapePrefix \o PyStr(GetOr(sd, "format", Str(FcstdFormat))))
        name == IF Truthy(fname) THEN fname ELSE generated
    IN  IF ~Truthy(sd) THEN [out |-> Return(None), dir |-> dir]
        ELSE IF ~IsDict(reference) THEN [out |-> Raise("AttributeError", "get"), dir |-> dir]
        ELSE IF ~has_inline_content(reference) THEN [out |-> Return(None), dir |-> dir]
        ELSE IF ~decoded.ok THEN [out |-> decoded, dir |-> dir]
        ELSE IF ~Truthy(fname) /\ ~IsDict(metadata)
        THEN [out |-> Raise("AttributeError", "get"), dir |-> dir]
        ELSE [out |-> Return(name), dir |-> write_bytes(mkdir(dir), name.s, decoded.val)]

----------------------------------------------------------------------------
(* ShapeStorage: calculate_file_hash, prepare_shape_upload,                *)
(* create_shape_data_reference, resolve_shape_file_path,                   *)
(* verify_shape_file_integrity                                             *)

\* hashlib.sha256 over the blocks of the file, hexdigest(): the blocks are fed
\* in order, so the digest is that of the bytes of the file. The SHA-256
\* digests of the byte contents that occur here.
sha256_hexdigest(bytes) ==
    CASE bytes = <<>> ->
           <<"e", "3", "b", "0", "c", "4", "4", "2", "9", "8", "f", "c", "1", "c", "1", "4",
             "9", "a", "f", "b", "f", "4", "c", "8", "9", "9", "6", "f", "b", "9", "2", "4",
             "2", "7", "a", "e", "4", "1", "e", "4", "6", "4", "9", "b", "9", "3", "4", "c",
             "a", "4", "9", "5", "9", "9", "1", "b", "7", "8", "5", "2", "b", "8", "5", "5">>
      [] bytes = <<65>> ->
           <<"5", "5", "9", "a", "e", "a", "d", "0", "8", "2", "6", "4", "d", "5", "7", "9",
             "5", "d", "3", "9", "0", "9", "7", "1", "8", "c", "d", "d", "0", "5", "a", "b",
             "d", "4", "9", "5", "7", "2", "e", "8", "4", "f", "e", "5", "5", "5", "9", "0",
             "e", "e", "f", "3", "1", "a", "8", "8", "a", "0", "8", "f", "d", "f", "f", "d">>
      [] bytes = <<66>> ->
           <<"d", "f", "7", "e", "7", "0", "e", "5", "0", "2", "1", "5", "4", "4", "f", "4",
             "8", "3", "4", "b", "b", "e", "e", "6", "4", "a", "9", "e", "3", "7", "8", "9",
             "f", "e", "b", "c", "4", "b", "e", "8", "1", "4", "7", "0", "d", "f", "6", "2",
             "9", "c", "a", "d", "6", "d", "d", "b", "0", "3", "3", "2", "0", "a", "5", "c">>
      [] bytes = <<65, 66>> ->
           <<"3", "8", "1", "6", "4", "f", "b", "d", "1", "7", "6", "0", "3", "d", "7", "3",
             "f", "6", "9", "6", "b", "8", "b", "4", "d", "7", "2", "6", "6", "4", "d", "7",
             "3", "5", "b", "b", "6", "a", "7", "c", "8", "8", "5", "7", "7", "6", "8", "7",
             "f", "d", "2", "a", "e", "3", "3", "f", "d", "6", "9", "6", "4", "1", "5", "3">>

Sha256Prefix == <<"s", "h", "a", "2", "5", "6", ":">>

\* out of a with-open block on a path that names no file
NotFound == Raise("FileNotFoundError", "No such file or directory")

\* a directory where a shape file is expected
Folder == [kind |-> "directory"]
\* out of open() on a directory
IsADirectory == Raise("IsADirectoryError", "Is a directory")

calculate_file_hash(path, fs) ==
    IF fs[path].kind = "absent" THEN NotFound
    ELSE IF fs[path].kind = "directory" THEN IsADirectory
    ELSE Return(Str(sha256_hexdigest(fs[path].value)))

\* the eight bits of a byte, most significant first
Octet(n) == [b \in 1..8 |-> (n \div (2 ^ (8 - b))) % 2]
RECURSIVE ByteBits(_)
ByteBits(bytes) == IF bytes = <<>> THEN <<>> ELSE Octet(Head(bytes)) \o ByteBits(Tail(bytes))
\* the character of the six bits from position i on, the missing ones zero
SextetChar(bits, i) ==
    LET b(j) == IF i + j <= Len(bits) THEN bits[i + j] ELSE 0
    IN  Base64Alphabet[32 * b(0) + 16 * b(1) + 8 * b(2) + 4 * b(3) + 2 * b(4) + b(5) + 1]
\* base64.b64encode(bytes).decode('utf-8'): one character per six bits, padded
\* with = to a multiple of four characters
b64encode(bytes) ==
    LET bits == ByteBits(bytes)
        chars == (Len(bits) + 5) \div 6
        pads == (4 - (chars % 4)) % 4
    IN  [k \in 1..chars |-> SextetChar(bits, 6 * (k - 1) + 1)] \o [k \in 1..pads |-> "="]

\* Path.suffix: from the last dot of the name on, when that dot is neither the
\* first nor the last character
Suffix(name) ==
    LET dots == {i \in 2..Len(name) : name[i] = "."}
        last == CHOOSE i \in dots : \A j \in dots : j <= i
    IN  IF dots = {} \/ last = Len(name) THEN <<>> ELSE SubSeq(name, last, Len(name))
\* text.lstrip('.')
RECURSIVE LStripDots(_)
LStripDots(t) == IF t # <<>> /\ Head(t) = "." THEN LStripDots(Tail(t)) ELSE t
\* shape_file_path.suffix.lstrip('.').lower()
file_format_of(path) == Str(LowerText(LStripDots(Suffix(path))))

\* the call when nothing else writes the file while it runs
prepare_shape_upload(path, fs) ==
    IF fs[path].kind = "absent" THEN NotFound
    ELSE IF fs[path].kind = "directory" THEN IsADirectory
    ELSE Return(PyObj([filename |-> Str(path),
                       format |-> file_format_of(path),
                       content |-> Str(b64encode(fs[path].value)),
                       hash |-> Str(Sha256Prefix \o sha256_hexdigest(fs[path].value)),
                       size_bytes |-> PyInt(Len(fs[path].value))]))

Freecad == <<"f", "r", "e", "e", "c", "a", "d">>
LocalPath == <<"l", "o", "c", "a", "l", "_", "p", "a", "t", "h">>
Url == <<"u", "r", "l">>

create_shape_data_reference(path, shape_type, url, fs) ==
    IF path = None THEN Return(None)
    ELSE IF fs[path.s].kind = "absent"
    THEN Return(PyObj([format |-> file_format_of(path.s),
                       source_system |-> Str(Freecad),
                       reference |-> PyObj([type |-> Str(LocalPath), value |-> path]),
                       metadata |-> PyObj([shape_type |-> shape_type,
                                           original_reference |-> path])]))
    ELSE IF fs[path.s].kind = "directory" THEN IsADirectory
    ELSE Return(PyObj([format |-> file_format_of(path.s),
                       source_system |-> Str(Freecad),
                       reference |-> PyObj([type |-> IF Truthy(url) THEN Str(Url) ELSE Str(LocalPath),
                                            value |-> IF Truthy(url) THEN url ELSE path,
                                            hash |-> Str(Sha256Prefix
                                                         \o sha256_hexdigest(fs[path.s].value)),
                                            size_bytes |-> PyInt(Len(fs[path.s].value))]),
                       metadata |-> PyObj([shape_type |-> shape_type,
                                           original_reference |-> path,
                                           filename |-> path])]))

\* a plausible slip: the whole expected text is compared, algorithm name included
digest_portion_whole(expected) == expected

\* expected_hash.split(':', 1)[1] when the text holds a colon, else the text
digest_portion(expected) ==
    LET colons == {i \in 1..Len(expected) : expected[i] = ":"}
        first == CHOOSE i \in colons : \A j \in colons : i <= j
    IN  IF colons = {} THEN expected ELSE SubSeq(expected, first + 1, Len(expected))

verify_shape_file_integrity(path, expected, fs) ==
    IF fs[path].kind = "absent" THEN Return(PyBool(FALSE))
    ELSE IF fs[path].kind = "directory" THEN IsADirectory
    ELSE Return(PyBool(sha256_hexdigest(fs[path].value) = digest_portion(expected.s)))

\* a pathlib.Path, as the tuple of its components from the root
PyPath(parts) == [t |-> "path", parts |-> parts]
\* a reference text: relative components, or an absolute path
Reference(abs, parts) == [abs |-> abs, parts |-> parts]
\* directory / reference: an absolute reference replaces the directory
join(dir, reference) == IF reference.abs THEN reference.parts ELSE dir \o reference.parts

\* a plausible slip: the loop keeps looking after a match, the last one wins
RECURSIVE search_loop_last(_, _, _)
search_loop_last(dirs, reference, fs) ==
    IF dirs = <<>> THEN Return(None)
    ELSE LET later == search_loop_last(Tail(dirs), reference, fs)
         IN  IF later.val # None THEN later
             ELSE IF join(Head(dirs), reference) \in fs
             THEN Return(PyPath(join(Head(dirs), reference)))
             ELSE Return(None)

\* the loop over search_dirs; fs is the set of the paths that exist
RECURSIVE search_loop(_, _, _)
search_loop(dirs, reference, fs) ==
    IF dirs = <<>> THEN Return(None)
    ELSE IF join(Head(dirs), reference) \in fs
    THEN Return(PyPath(join(Head(dirs), reference)))
    ELSE search_loop(Tail(dirs), reference, fs)

resolve_shape_file_path(reference, base, search, fs) ==
    IF join(base, reference) \in fs THEN Return(PyPath(join(base, reference)))
    ELSE IF Truthy(search) THEN search_loop(search.elems, reference, fs)
    ELSE Return(None)

----------------------------------------------------------------------------
(* DuplicateDetector: the index built by export_tool_bits, and check_duplicates *)

DiameterKey == <<"d", "i", "a", "m", "e", "t", "e", "r">>
\* d.get(key) for a dict with text keys
GetText(d, k) == IF k \in KeysOf(d.items) THEN ValueAt(d.items, k) ELSE None

\* f"{desc}|{diam}"
Signature(desc, diam) == PyStr(desc) \o <<"|">> \o PyStr(diam)

\* The loop over the fetched items that fills existing_by_id and existing_by_sig.
\* item.get("freecad_metadata", {}).get("id") and item.get("geometry", {}).get(
\* "diameter") fail on a value that is no dict; the try block around the loop
\* catches it and the indexes stay as far as they were filled.
RECURSIVE index_loop(_, _, _)
index_loop(rest, by_id, by_sig) ==
    IF rest = <<>> THEN [by_id |-> by_id, by_sig |-> by_sig]
    ELSE LET item == Head(rest)
             metadata == GetOr(item, "freecad_metadata", EmptyObj)
             geometry == GetOr(item, "geometry", EmptyDict)
             fc_id == Get(metadata, "id")
             desc == GetOr(item, "description", Str(<<>>))
             diam == GetText(geometry, DiameterKey)
             with_id == IF Truthy(fc_id) THEN DictSet(by_id, fc_id, item) ELSE by_id
         IN  IF ~IsDict(metadata) THEN [by_id |-> by_id, by_sig |-> by_sig]
             ELSE IF ~IsDict(geometry) THEN [by_id |-> with_id, by_sig |-> by_sig]
             ELSE index_loop(Tail(rest), with_id,
                     IF Truthy(desc) /\ diam # None
                     THEN DictSet(by_sig, Signature(desc, diam), item)
                     ELSE by_sig)

FreeCadIdReason == "FreeCAD ID"
SignatureReason == "description+diameter"

check_duplicates(t, by_id, by_sig) ==
    LET freecad_id == Get(t, "id")
        desc == GetOr(t, "description", Str(<<>>))
        geometry == GetOr(t, "geometry", EmptyDict)
        diam == GetText(geometry, DiameterKey)
    IN  \* tool.get("geometry", {}).get("diameter") of a value that is no dict
        IF ~IsDict(geometry) THEN Raise("AttributeError", "get")
        ELSE IF Truthy(freecad_id) /\ freecad_id \in KeysOf(by_id)
        THEN Return(<<TRUE, FreeCadIdReason>>)
        ELSE IF Truthy(desc) /\ diam # None /\ Signature(desc, diam) \in KeysOf(by_sig)
        THEN Return(<<TRUE, SignatureReason>>)
        ELSE Return(<<FALSE, "">>)

----------------------------------------------------------------------------
(* SmoothSyncDialog: export_tool_bits, import_tool_items *)

\* the directories export_tool_bits looks in: tool_bits_dir, its parent (the
\* root of the paths here) and the parent's Shape directory
ParentDir == <<>>
BitDirName == <<"B", "i", "t">>
ShapeDirName == <<"S", "h", "a", "p", "e">>
ToolBitsDir == ParentDir \o <<BitDirName>>
\* the paths of fs that exist
Existing(fs) == {p \in DOMAIN fs : fs[p].kind # "absent"}

\* shape_data['reference'].update({...}) with the upload prepared from the file
reference_updated(reference, upload) ==
    PyObj([type |-> Str(Inline),
           content |-> upload.f["content"],
           hash |-> upload.f["hash"],
           size_bytes |-> upload.f["size_bytes"]] @@ reference.f)

\* the tool with the shape file found at shape_path put inline; a failure of
\* prepare_shape_upload is logged and the tool stays as it was
shape_included(st, shape_path, fs) ==
    LET name == shape_path.parts[Len(shape_path.parts)]
        shape_upload == prepare_shape_upload(name, name :> fs[shape_path.parts])
        shape_data == st.f["shape_data"]
    IN  IF ~shape_upload.ok THEN st
        ELSE PyObj(("shape_data" :>
                      PyObj(("reference" :>
                               reference_updated(shape_data.f["reference"], shape_upload.val))
                            @@ shape_data.f))
                   @@ st.f)

\* the part of the loop body between the duplicate check and the append
with_shape(st, fs) ==
    LET shape_data == GetOr(st, "shape_data", EmptyObj)
        shape_filename == Get(GetOr(shape_data, "reference", EmptyObj), "value")
        shape_path == resolve_shape_file_path(
                          Reference(FALSE, <<shape_filename.s>>), ParentDir,
                          PyList(<<ToolBitsDir, ParentDir \o <<ShapeDirName>>>>), Existing(fs))
    IN  IF ~Truthy(shape_data) \/ ~Truthy(shape_filename) THEN st
        ELSE IF shape_path.val = None THEN st
        ELSE shape_included(st, shape_path.val, fs)

\* what the loop body does with one selected bit
Failed == [counted |-> "errors"]
Skipped == [counted |-> "skipped"]
Appended(st) == [counted |-> "smooth_tools", tool |-> st]

\* a plausible slip: the result of the duplicate check is not looked at
never_duplicate(dup) == FALSE

\* is_duplicate of `is_duplicate, method = self.check_duplicates(...)`
is_duplicate(dup) == dup.val[1]

bit_checked(st, dup, fs) ==
    IF ~dup.ok THEN Failed
    ELSE IF is_duplicate(dup) THEN Skipped
    ELSE Appended(with_shape(st, fs))
bit_converted(converted, fs, by_id, by_sig) ==
    IF ~converted.ok THEN Failed
    ELSE bit_checked(converted.val, check_duplicates(converted.val, by_id, by_sig), fs)
bit_parsed(t, fs, by_id, by_sig) ==
    IF ~t.ok THEN Failed
    ELSE bit_converted(fctb_to_smooth(t.val), fs, by_id, by_sig)
\* the try block of the loop over selected_bits
export_bit(fctb_file, fs, by_id, by_sig) ==
    bit_parsed(parse_fctb(fctb_file, fs), fs, by_id, by_sig)

\* a plausible slip: a failed bulk POST counted as one error
bulk_failed_once(errs, sent) == errs + 1

\* errors += len(smooth_tools)
bulk_failed(errs, sent) == errs + Len(sent)

Unknown == <<"u", "n", "k", "n", "o", "w", "n">>
\* smooth_item.get('freecad_metadata', {}).get('id', smooth_item.get('id', 'unknown'))
tool_id_of(smooth_item) ==
    LET metadata == GetOr(smooth_item, "freecad_metadata", EmptyObj)
    IN  IF ~IsDict(metadata) THEN Raise("AttributeError", "get")
        ELSE Return(GetOr(metadata, "id", GetOr(smooth_item, "id", Str(Unknown))))

\* the try block of the loop over selected_items, after the conversion: the
\* tool-bit file is written, the shape saved when the item carries one (a
\* failure there is logged only), and the item counts as imported
item_converted(smooth_item, fctb_data, tool_id, dir, shapes) ==
    IF ~fctb_data.ok \/ ~tool_id.ok \/ ~dir.exists
    THEN [ok |-> FALSE, dir |-> dir, shapes |-> shapes]
    ELSE [ok |-> TRUE,
          dir |-> write(dir, PyStr(tool_id.val) \o FctbSuffix, fctb_data.val),
          shapes |-> IF Truthy(Get(smooth_item, "shape_data"))
                     THEN download_and_save_shape(Get(smooth_item, "shape_data"), shapes, None).dir
                     ELSE shapes]
import_item(smooth_item, dir, shapes) ==
    item_converted(smooth_item, smooth_to_fctb(smooth_item, DefaultShape),
                   tool_id_of(smooth_item), dir, shapes)

----------------------------------------------------------------------------
(* Specification SpecCodec: one call of a codec function on a drawn input *)

\* the pieces the texts of the model are built from
Tokens == {<<"6">>, <<"0">>, <<".">>, <<"-">>, <<" ">>, <<"\n">>, <<"m">>, <<"°">>,
           <<"n">>, <<"i", "n">>, <<"d", "e", "g">>}
NumberTokens == {<<"6">>, <<"0">>, <<".">>, <<"-">>}

\* the texts made of at most n pieces of T
RECURSIVE Texts(_, _)
Texts(T, n) == IF n = 0 THEN {<<>>}
               ELSE LET shorter == Texts(T, n - 1)
                    IN  shorter \cup {s \o k : s \in shorter, k \in T}

\* a text of the form [-+]?[0-9]*\.?[0-9]+, read off its characters
IsNumberText(s) ==
    LET body == IF s # <<>> /\ s[1] \in {"-", "+"} THEN Tail(s) ELSE s
        a == DigitRun(body, 1)
        rest == From(body, a + 1)
        digits == IF rest # <<>> /\ rest[1] = "." THEN Tail(rest) ELSE rest
    IN  /\ body # <<>>
        /\ \/ rest = <<>>
           \/ rest[1] = "." /\ digits # <<>> /\ DigitRun(digits, 1) = Len(digits)

NumberTexts == {s \in Texts(NumberTokens, MaxTokens - 1) : IsNumberText(s)}

\* values that are not text
NonText == {None, PyInt(6), PyBool(TRUE), Float(FALSE, 6 * Scale),
            UnitValue(Float(FALSE, 6 * Scale), Str(<<"m", "m">>)), PyList(<<>>)}
ParseInputs == {Str(s) : s \in Texts(Tokens, MaxTokens)} \cup NonText

FormatValues == {float(s) : s \in NumberTexts}
                  \cup {PyInt(0), PyInt(6), PyInt(-6), PyInt(60), PyBool(TRUE), None,
                        Str(<<"H", "S", "S">>), Str(<<>>), Str(<<"6">>)}
FormatUnits == {None, Str(<<"m", "m">>), Str(DegreeSign), Str(<<"i", "n">>), Str(<<>>)}

nonCodecVars == <<data, tool, library, smooth_tool, fctb, items, existing_by_id,
                  existing_by_sig, file_path, files,
    default_shape,
    tool_set,
    tools_dict,
    fctl,
    output_dir,
    attachment,
    filename,
    expected_hash,
    upload_url,
    shape_reference,
    base_dir,
    search_dirs,
    calls,
    frames,
    selected,
    idx,
    smooth_tools,
    tools_exported,
    errors,
    skipped,
    imported,
    posts,
    shapes_dir,
    written,
    file_content,
    file_hash,
    file_size>>

InitCodec ==
    /\ \/ pc = "parse" /\ value \in ParseInputs /\ unit = None
       \/ pc = "format" /\ value \in FormatValues /\ unit \in FormatUnits
    /\ ret = Unset
    /\ data = Unset /\ tool = Unset /\ library = Unset
    /\ smooth_tool = Unset /\ fctb = Unset
    /\ items = Unset /\ existing_by_id = Unset /\ existing_by_sig = Unset
    /\ file_path = Unset /\ files = Unset
    /\ default_shape = Unset
    /\ tool_set = Unset
    /\ tools_dict = Unset
    /\ fctl = Unset
    /\ output_dir = Unset
    /\ attachment = Unset
    /\ filename = Unset
    /\ expected_hash = Unset
    /\ upload_url = Unset
    /\ shape_reference = Unset
    /\ base_dir = Unset
    /\ search_dirs = Unset
    /\ calls = Unset
    /\ frames = Unset
    /\ selected = Unset
    /\ idx = Unset
    /\ smooth_tools = Unset
    /\ tools_exported = Unset
    /\ errors = Unset
    /\ skipped = Unset
    /\ imported = Unset
    /\ posts = Unset
    /\ shapes_dir = Unset
    /\ written = Unset
    /\ file_content = Unset
    /\ file_hash = Unset
    /\ file_size = Unset

ParseParameterValue ==
    /\ pc = "parse"
    /\ ret' = Return(parse_parameter_value(value))
    /\ pc' = "parsed"
    /\ UNCHANGED <<value, unit, nonCodecVars>>

FormatParameterValue ==
    /\ pc = "format"
    /\ ret' = Return(format_parameter_value(value, unit))
    /\ pc' = "formatted"
    /\ UNCHANGED <<value, unit, nonCodecVars>>

NextCodec == ParseParameterValue \/ FormatParameterValue

SpecCodec == InitCodec /\ [][NextCodec]_vars

----------------------------------------------------------------------------
(* Specification SpecBit: a native tool-bit document is parsed, converted to an *)
(* exchange item and converted back; or an exchange item is converted directly  *)

\* number of entries of a document's parameter mapping
MaxParams == 2
\* number of entries of an exchange item's geometry
MaxGeometry == 2

\* the dicts of at most n items with distinct keys from K and values from V
RECURSIVE ItemSeqs(_, _, _)
ItemSeqs(K, V, n) ==
    IF n = 0 THEN {<<>>}
    ELSE LET shorter == ItemSeqs(K, V, n - 1)
         IN  shorter \cup
               UNION {{its \o <<[k |-> k, v |-> v]>> : k \in K \ KeysOf(its), v \in V}
                        : its \in shorter}

ParamNames == {<<"D", "i", "a", "m", "e", "t", "e", "r">>, <<"T", "i", "p", "A", "n", "g", "l", "e">>,
               <<"M", "a", "t", "e", "r", "i", "a", "l">>, <<"F", "l", "u", "t", "e", "s">>,
               <<"d", "i", "a", "m", "e", "t", "e", "r">>}
ParamValues == {Str(<<"6", ".", "0", "0", " ", "m", "m">>), Str(<<"6", " ", "m", "m">>),
                Str(<<"6", ".", "0", "6", "6", " ", "m", "m">>),
                Str(<<"6", "0", ".", "0", "0", "°">>), Str(<<"H", "S", "S">>), PyInt(2)}

ShapeFile == Str(<<"e", "n", "d", "m", "i", "l", "l", ".", "f", "c", "s", "t", "d">>)
ToolName == Str(<<"T", "1">>)
IdX == Str(<<"X">>)
IdY == Str(<<"Y">>)

\* the five required fields of a tool-bit document
BitDoc(shape, shape_type, parameter) ==
    [k \in {"version", "name", "shape", "shape-type", "parameter"} |->
        CASE k = "version" -> PyInt(2)
          [] k = "name" -> ToolName
          [] k = "shape" -> shape
          [] k = "shape-type" -> shape_type
          [] k = "parameter" -> parameter]

\* shape, shape type and the optional fields of the documents of the model
DocVariants ==
    {<<ShapeFile, Str(EndmillShape), <<>>>>,
     <<ShapeFile, Str(ProbeShape), "id" :> IdX>>,
     <<ShapeFile, Str(<<"V", "B", "i", "t">>), ("id" :> None) @@ ("attribute" :> None)>>,
     <<ShapeFile, Str(<<"B", "u", "l", "l", "n", "o", "s", "e">>),
       "attribute" :> PyDict(<<[k |-> <<"a">>, v |-> PyInt(1)]>>)>>,
     <<Str(<<>>), Str(EndmillShape), "id" :> IdX>>,
     <<ShapeFile, Str(EndmillShape), "custom" :> Str(<<"c">>)>>}

CompleteDocs ==
    {PyObj(BitDoc(x[1], x[2], PyDict(ps)) @@ x[3]) :
        x \in DocVariants, ps \in ItemSeqs(ParamNames, ParamValues, MaxParams)}

\* documents that lack required fields, and parsed JSON that is no tool-bit document
WholeDoc ==
    BitDoc(ShapeFile, Str(EndmillShape),
           PyDict(<<[k |-> <<"D", "i", "a", "m", "e", "t", "e", "r">>, v |-> Str(<<"6", ".", "0", "0", " ", "m", "m">>)]>>))
      @@ ("id" :> IdX) @@ ("custom" :> Str(<<"c">>))
PartialDocs ==
    {PyObj([k \in (DOMAIN WholeDoc \ gone) |-> WholeDoc[k]]) :
        gone \in SUBSET {"version", "name", "shape", "shape-type", "parameter", "id"}}
OddDocs ==
    {PyInt(5), None, PyList(<<>>),
     PyList([i \in 1..5 |-> Str(FieldText(required_fields[i]))]),
     Str(<<"n", "a", "m", "e">>),
     PyObj(BitDoc(ShapeFile, Str(EndmillShape), None)),
     PyObj(BitDoc(ShapeFile, Str(EndmillShape), PyList(<<>>)))}

BitDocs == CompleteDocs \cup PartialDocs \cup OddDocs

GeometryKeys == {<<"d", "i", "a", "m", "e", "t", "e", "r">>, <<"d", "i", "a", "m", "e", "t", "e", "r", "_", "u", "n", "i", "t">>, <<"f", "l", "u", "t", "e", "s">>, <<"t", "i", "p", "_", "a", "n", "g", "l", "e">>}
GeometryValues == {PyInt(6), Float(FALSE, 6 * Scale), Str(<<"6">>), None, Str(<<"m", "m">>)}

\* the fields of an exchange item besides its geometry
ItemVariants ==
    {[type |-> Str(CuttingTool), description |-> ToolName],
     [type |-> Str(ProbeType), description |-> ToolName, id |-> IdY,
      material |-> PyObj([type |-> Str(<<"H", "S", "S">>)]),
      freecad_metadata |-> None, shape_data |-> None],
     [description |-> ToolName,
      freecad_metadata |-> PyObj([shape |-> ShapeFile, shape_type |-> Str(ProbeShape),
                                  id |-> IdX, version |-> PyInt(2)])],
     [type |-> Str(CuttingTool),
      freecad_metadata |-> PyObj([id |-> None]),
      shape_data |-> PyObj([reference |-> PyObj([type |-> Str(<<"u", "r", "l">>),
                                                   value |-> ShapeFile])])]}

ShapeA == Str(<<"a", ".", "f", "c", "s", "t", "d">>)
ShapeB == Str(<<"b", ".", "f", "c", "s", "t", "d">>)
BothShapes == PyObj([reference |-> PyObj([value |-> ShapeA]),
                     metadata |-> PyObj([original_reference |-> ShapeB])])
\* items that differ in the fields the shape type, the shape file and the id are taken from
ExtraItems ==
    {PyObj(x) : x \in
        {[type |-> Str(CuttingTool), description |-> ToolName],
         [description |-> ToolName, geometry |-> None],
         [description |-> ToolName],
         [type |-> None],
         [type |-> Str(<<"h", "o", "l", "d", "e", "r">>), id |-> None],
         [type |-> Str(ProbeType), freecad_metadata |-> PyObj([shape_type |-> None])],
         [type |-> Str(ProbeType), freecad_metadata |-> EmptyObj, shape_data |-> EmptyObj],
         [freecad_metadata |-> PyObj([shape |-> Str(<<>>)]), shape_data |-> BothShapes],
         [freecad_metadata |-> PyObj([shape |-> ShapeFile]), shape_data |-> BothShapes],
         [id |-> IdY, freecad_metadata |-> PyObj([id |-> IdX]),
          shape_data |-> PyObj([reference |-> PyObj([value |-> Str(<<>>)]),
                                metadata |-> PyObj([original_reference |-> ShapeB])])],
         [shape_data |-> PyObj([metadata |-> PyObj([original_reference |-> ShapeB])])],
         [shape_data |-> PyObj([reference |-> PyObj([value |-> ShapeA])])],
         [shape_data |-> PyObj([reference |-> PyObj([type |-> Str(<<"u", "r", "l">>)]),
                                metadata |-> EmptyObj])],
         [freecad_metadata |-> PyObj([shape |-> None]), shape_data |-> None],
         [id |-> IdY, freecad_metadata |-> PyObj([id |-> None])]}}

ExchangeItems ==
    {PyObj(("geometry" :> PyDict(g)) @@ x) :
        x \in ItemVariants, g \in ItemSeqs(GeometryKeys, GeometryValues, MaxGeometry)}
      \cup ExtraItems

\* the default shape names a caller passes
DefaultShapes == {DefaultShape, <<"d">>}

InitBit ==
    /\ \/ /\ pc = "parse_fctb_dict" /\ data \in BitDocs /\ smooth_tool = Unset
          /\ default_shape = DefaultShape
       \/ /\ pc = "smooth_to_fctb" /\ data = Unset /\ smooth_tool \in ExchangeItems
          /\ default_shape \in DefaultShapes
    /\ tool = Unset /\ fctb = Unset /\ ret = Unset
    /\ value = Unset /\ unit = Unset /\ library = Unset
    /\ items = Unset /\ existing_by_id = Unset /\ existing_by_sig = Unset
    /\ file_path = Unset /\ files = Unset
    /\ tool_set = Unset
    /\ tools_dict = Unset
    /\ fctl = Unset
    /\ output_dir = Unset
    /\ attachment = Unset
    /\ filename = Unset
    /\ expected_hash = Unset
    /\ upload_url = Unset
    /\ shape_reference = Unset
    /\ base_dir = Unset
    /\ search_dirs = Unset
    /\ calls = Unset
    /\ frames = Unset
    /\ selected = Unset
    /\ idx = Unset
    /\ smooth_tools = Unset
    /\ tools_exported = Unset
    /\ errors = Unset
    /\ skipped = Unset
    /\ imported = Unset
    /\ posts = Unset
    /\ shapes_dir = Unset
    /\ written = Unset
    /\ file_content = Unset
    /\ file_hash = Unset
    /\ file_size = Unset

nonBitVars == <<value, unit, library, items, existing_by_id, existing_by_sig,
                file_path, files,
    tool_set,
    tools_dict,
    fctl,
    output_dir,
    attachment,
    filename,
    expected_hash,
    upload_url,
    shape_reference,
    base_dir,
    search_dirs,
    calls,
    frames,
    selected,
    idx,
    smooth_tools,
    tools_exported,
    errors,
    skipped,
    imported,
    posts,
    shapes_dir,
    written,
    file_content,
    file_hash,
    file_size>>

\* the value a call leaves in its variable: what it returned, or nothing
Result(outcome) == IF outcome.ok THEN outcome.val ELSE Unset

ParseFctbDict ==
    /\ pc = "parse_fctb_dict"
    /\ ret' = parse_fctb_dict(data)
    /\ tool' = Result(ret')
    /\ pc' = IF ret'.ok THEN "fctb_to_smooth" ELSE "done"
    /\ UNCHANGED <<data, smooth_tool, fctb, default_shape, nonBitVars>>

FctbToSmooth ==
    /\ pc = "fctb_to_smooth"
    /\ ret' = fctb_to_smooth(tool)
    /\ smooth_tool' = Result(ret')
    /\ pc' = IF ret'.ok THEN "smooth_to_fctb" ELSE "done"
    /\ UNCHANGED <<data, tool, fctb, default_shape, nonBitVars>>

SmoothToFctb ==
    /\ pc = "smooth_to_fctb"
    /\ ret' = smooth_to_fctb(smooth_tool, default_shape)
    /\ fctb' = Result(ret')
    /\ pc' = "done"
    /\ UNCHANGED <<data, tool, smooth_tool, default_shape, nonBitVars>>

NextBit == ParseFctbDict \/ FctbToSmooth \/ SmoothToFctb

SpecBit == InitBit /\ [][NextBit]_vars

----------------------------------------------------------------------------
(* Specification SpecLib: a native library document is parsed *)

\* number of entries of a library's tool list
MaxTools == 2

RECURSIVE SeqsUpTo(_, _)
\* the sequences of at most n elements of S
SeqsUpTo(S, n) ==
    IF n = 0 THEN {<<>>}
    ELSE LET shorter == SeqsUpTo(S, n - 1)
         IN  shorter \cup {q \o <<x>> : q \in shorter, x \in S}

BitPathA == Str(<<"a", ".", "f", "c", "t", "b">>)
BitPathB == Str(<<"b", ".", "f", "c", "t", "b">>)
ToolEntries ==
    {PyObj([nr |-> PyInt(n), path |-> p]) : n \in 1..2, p \in {BitPathA, BitPathB, Str(<<>>)}}

LabelL == Str(<<"L">>)
NameN == Str(<<"N">>)
\* a field that may be absent: no entry, or one entry for each value
Optional(k, V) == {<<>>} \cup {k :> v : v \in V}

LibraryDocs ==
    {PyObj(version @@ tools @@ label @@ name) :
        version \in Optional("version", {PyInt(1)}),
        tools \in Optional("tools", {None, EmptyDict}
                     \cup {PyList(q) : q \in SeqsUpTo(ToolEntries, MaxTools)}),
        label \in Optional("label", {None, Str(<<>>), LabelL}),
        name \in Optional("name", {Str(<<>>), NameN})}
\* parsed JSON that is no library document
OddLibraryDocs ==
    {PyInt(5), None, PyList(<<>>),
     PyList(<<Str(FieldText("version")), Str(FieldText("tools"))>>),
     Str(FieldText("version") \o FieldText("tools"))}

\* the bits directory: the file of each path a tool entry may name; the empty
\* path names the directory itself, which exists and cannot be read as a file
BitsDirs ==
    {(<<>> :> Unreadable) @@ (BitPathA.s :> a) @@ (BitPathB.s :> b) :
        a \in {NoFile, NotJson, JsonFile(PyObj(WholeDoc)), JsonFile(PyInt(5))},
        b \in {NoFile, JsonFile(PyObj(WholeDoc))}}

\* members of an exchange tool set: with or without number and path
Members ==
    {PyObj(nr @@ path) : nr \in Optional("tool_number", {PyInt(2)}),
                         path \in Optional("tool_path", {BitPathA, Str(<<>>)})}
SetS == Str(<<"M", "y", " ", "S", "e", "t">>)
\* exchange tool sets a caller builds, with a members list, a tools list, both or neither
ToolSets ==
    {PyObj(name @@ metadata @@ members @@ tools) :
        name \in Optional("name", {SetS, Str(<<>>)}),
        metadata \in Optional("freecad_metadata", {PyObj([version |-> PyInt(3)])}),
        members \in Optional("members", {PyList(q) : q \in SeqsUpTo(Members, MaxTools)}),
        tools \in Optional("tools", {PyList(<<>>),
                                     PyList(<<PyObj([tool_number |-> PyInt(1),
                                                     tool_path |-> BitPathB])>>)})}
\* tool sets with neither list
BareSets == {ts \in ToolSets : ~Has(ts, "members") /\ ~Has(ts, "tools")}
ItemT == PyObj([type |-> Str(CuttingTool), description |-> ToolName])
\* mappings from tool number to exchange item, in every insertion order
ToolDicts ==
    {EmptyDict}
      \cup {PyDict(<<[k |-> PyInt(n), v |-> ItemT]>>) : n \in 1..3}
      \cup {PyDict(<<[k |-> PyInt(x[1]), v |-> ItemT], [k |-> PyInt(x[2]), v |-> ItemT]>>) :
               x \in {y \in (1..3) \X (1..3) : y[1] # y[2]}}

InitLib ==
    /\ \/ /\ pc = "parse_fctl_dict"
          /\ data \in LibraryDocs \cup OddLibraryDocs
          /\ files \in BitsDirs
          /\ tool_set = Unset /\ tools_dict = None
       \/ /\ pc = "smooth_to_fctl"
          /\ data = Unset /\ files = Unset
          /\ \/ tool_set \in ToolSets /\ tools_dict \in {None, PyDict(<<[k |-> PyInt(2), v |-> ItemT]>>)}
             \/ tool_set \in BareSets /\ tools_dict \in ToolDicts
    /\ library = Unset /\ ret = Unset
    /\ tool = Unset /\ smooth_tool = Unset /\ fctb = Unset
    /\ value = Unset /\ unit = Unset
    /\ items = Unset /\ existing_by_id = Unset /\ existing_by_sig = Unset
    /\ file_path = Unset
    /\ default_shape = Unset
    /\ fctl = Unset
    /\ output_dir = Unset
    /\ attachment = Unset
    /\ filename = Unset
    /\ expected_hash = Unset
    /\ upload_url = Unset
    /\ shape_reference = Unset
    /\ base_dir = Unset
    /\ search_dirs = Unset
    /\ calls = Unset
    /\ frames = Unset
    /\ selected = Unset
    /\ idx = Unset
    /\ smooth_tools = Unset
    /\ tools_exported = Unset
    /\ errors = Unset
    /\ skipped = Unset
    /\ imported = Unset
    /\ posts = Unset
    /\ shapes_dir = Unset
    /\ written = Unset
    /\ file_content = Unset
    /\ file_hash = Unset
    /\ file_size = Unset

nonLibVars == <<value, unit, tool, smooth_tool, fctb, items, existing_by_id,
                existing_by_sig, file_path, default_shape,
    output_dir,
    attachment,
    filename,
    expected_hash,
    upload_url,
    shape_reference,
    base_dir,
    search_dirs,
    calls,
    frames,
    selected,
    idx,
    smooth_tools,
    tools_exported,
    errors,
    skipped,
    imported,
    posts,
    shapes_dir,
    written,
    file_content,
    file_hash,
    file_size>>

ParseFctlDict ==
    /\ pc = "parse_fctl_dict"
    /\ ret' = parse_fctl_dict(data)
    /\ library' = Result(ret')
    /\ pc' = IF ret'.ok THEN "library" ELSE "done"
    /\ UNCHANGED <<data, files, tool_set, tools_dict, fctl, nonLibVars>>

\* the entries a library function reads are mappings with a path and a number,
\* as every entry of the documents here is
CheckToolNumberUniqueness ==
    /\ pc = "library"
    /\ ret' = check_tool_number_uniqueness(library)
    /\ pc' = "checked"
    /\ UNCHANGED <<data, library, files, tool_set, tools_dict, fctl, nonLibVars>>

LoadLibraryWithTools ==
    /\ pc = "library"
    /\ LET call == load_library_with_tools(library, files)
       IN  ret' = call.out /\ library' = call.arg
    /\ pc' = "loaded"
    /\ UNCHANGED <<data, files, tool_set, tools_dict, fctl, nonLibVars>>

LibraryToSmoothToolSet ==
    /\ pc = "library"
    /\ LET call == library_to_smooth_tool_set(library, files)
       IN  ret' = call.out /\ library' = call.arg
    /\ tool_set' = Result(ret')
    /\ pc' = IF ret'.ok THEN "smooth_to_fctl" ELSE "failed"
    /\ UNCHANGED <<data, files, tools_dict, fctl, nonLibVars>>

SmoothToFctl ==
    /\ pc = "smooth_to_fctl"
    /\ ret' = smooth_to_fctl(tool_set, tools_dict)
    /\ fctl' = Result(ret')
    /\ pc' = "fctl"
    /\ UNCHANGED <<data, library, files, tool_set, tools_dict, nonLibVars>>

NextLib ==
    \/ ParseFctlDict
    \/ CheckToolNumberUniqueness
    \/ LoadLibraryWithTools
    \/ LibraryToSmoothToolSet
    \/ SmoothToFctl

SpecLib == InitLib /\ [][NextLib]_vars

----------------------------------------------------------------------------
(* SpecExport: export_toolset_to_freecad on tool sets and item mappings a caller *)
(* builds, into an output directory that exists or not                          *)

\* an exchange item whose diameter is a number without a unit
ItemNoUnit ==
    PyObj([type |-> Str(CuttingTool), description |-> ToolName,
           geometry |-> PyDict(<<[k |-> <<"d", "i", "a", "m", "e", "t", "e", "r">>, v |-> PyInt(6)]>>)])
ExportMembers ==
    {PyObj(nr @@ path) : nr \in Optional("tool_number", {PyInt(1), PyInt(2)}),
                         path \in Optional("tool_path", {BitPathA})}
ExportSets ==
    {PyObj(name @@ members) :
        name \in Optional("name", {SetS, None}),
        members \in Optional("members", {PyList(q) : q \in SeqsUpTo(ExportMembers, MaxTools)})}
ExportDicts ==
    {EmptyDict}
      \cup {PyDict(<<[k |-> PyInt(n), v |-> x]>>) : n \in 1..2, x \in {ItemT, ItemNoUnit}}
      \cup {PyDict(<<[k |-> PyInt(n), v |-> x], [k |-> PyInt(3 - n), v |-> y]>>) :
               n \in 1..2, x \in {ItemT, ItemNoUnit}, y \in {ItemT, ItemNoUnit}}
\* the directory is absent, empty, or holds a file from an earlier export
OutputDirs ==
    {Directory(FALSE, <<>>), Directory(TRUE, <<>>),
     Directory(TRUE, BitPathA.s :> JsonFile(PyInt(5)))}

nonExportVars == <<value, unit, data, tool, library, smooth_tool, fctb, items,
                   existing_by_id, existing_by_sig, file_path, files, default_shape, fctl,
                   attachment, filename,
    expected_hash,
    upload_url,
    shape_reference,
    base_dir,
    search_dirs,
    calls,
    frames,
    selected,
    idx,
    smooth_tools,
    tools_exported,
    errors,
    skipped,
    imported,
    posts,
    shapes_dir,
    written,
    file_content,
    file_hash,
    file_size>>

InitExport ==
    /\ pc = "export_toolset_to_freecad"
    /\ tool_set \in ExportSets
    /\ tools_dict \in ExportDicts
    /\ output_dir \in OutputDirs
    /\ ret = Unset
    /\ value = Unset /\ unit = Unset /\ data = Unset /\ tool = Unset /\ library = Unset
    /\ smooth_tool = Unset /\ fctb = Unset /\ items = Unset
    /\ existing_by_id = Unset /\ existing_by_sig = Unset
    /\ file_path = Unset /\ files = Unset /\ default_shape = Unset /\ fctl = Unset
    /\ attachment = Unset /\ filename = Unset
    /\ expected_hash = Unset
    /\ upload_url = Unset
    /\ shape_reference = Unset
    /\ base_dir = Unset
    /\ search_dirs = Unset
    /\ calls = Unset
    /\ frames = Unset
    /\ selected = Unset
    /\ idx = Unset
    /\ smooth_tools = Unset
    /\ tools_exported = Unset
    /\ errors = Unset
    /\ skipped = Unset
    /\ imported = Unset
    /\ posts = Unset
    /\ shapes_dir = Unset
    /\ written = Unset
    /\ file_content = Unset
    /\ file_hash = Unset
    /\ file_size = Unset

ExportToolsetToFreecad ==
    /\ pc = "export_toolset_to_freecad"
    /\ LET call == export_toolset_to_freecad(tool_set, tools_dict, output_dir)
       IN  ret' = call.out /\ output_dir' = call.dir
    /\ pc' = "exported"
    /\ UNCHANGED <<tool_set, tools_dict, nonExportVars>>

NextExport == ExportToolsetToFreecad

SpecExport == InitExport /\ [][NextExport]_vars

----------------------------------------------------------------------------
(* SpecWrite: export_toolset_to_freecad step by step, one write at a time, *)
(* with tool paths that can and cannot be written                          *)

\* a path into a subdirectory the output directory does not have
BadPath == Str(<<"x", "/", "a", ".", "f", "c", "t", "b">>)
WriteMembers ==
    {PyObj(("tool_number" :> PyInt(n)) @@ path) :
        n \in 1..2, path \in Optional("tool_path", {BitPathA, BadPath})}
WriteSets ==
    {PyObj(name @@ members) :
        name \in Optional("name", {SetS, None}),
        members \in Optional("members", {PyList(q) : q \in SeqsUpTo(WriteMembers, MaxTools)})}
WriteDicts ==
    {EmptyDict,
     PyDict(<<[k |-> PyInt(1), v |-> ItemT]>>),
     PyDict(<<[k |-> PyInt(1), v |-> ItemNoUnit]>>),
     PyDict(<<[k |-> PyInt(1), v |-> ItemT], [k |-> PyInt(2), v |-> ItemT]>>),
     PyDict(<<[k |-> PyInt(2), v |-> ItemNoUnit], [k |-> PyInt(1), v |-> ItemT]>>)}

\* a record of one call of write_fctb or write_fctl
Write(fn, path) == [fn |-> fn, path |-> path]

nonWriteVars == <<value, unit, data, tool, library, smooth_tool, fctb, items,
                  existing_by_id, existing_by_sig, file_path, files, default_shape,
                  attachment, filename, expected_hash, upload_url, shape_reference,
                  base_dir, search_dirs, calls, frames, selected, smooth_tools,
                  tools_exported, errors, skipped, imported, posts, shapes_dir,
    file_content,
    file_hash,
    file_size>>

InitWrite ==
    /\ pc = "export_toolset_to_freecad"
    /\ tool_set \in WriteSets
    /\ tools_dict \in WriteDicts
    /\ output_dir \in {Directory(FALSE, <<>>), Directory(TRUE, <<>>)}
    /\ fctl = Unset
    /\ idx = 0
    /\ written = <<>>
    /\ ret = Unset
    /\ value = Unset
    /\ unit = Unset
    /\ data = Unset
    /\ tool = Unset
    /\ library = Unset
    /\ smooth_tool = Unset
    /\ fctb = Unset
    /\ items = Unset
    /\ existing_by_id = Unset
    /\ existing_by_sig = Unset
    /\ file_path = Unset
    /\ files = Unset
    /\ default_shape = Unset
    /\ attachment = Unset
    /\ filename = Unset
    /\ expected_hash = Unset
    /\ upload_url = Unset
    /\ shape_reference = Unset
    /\ base_dir = Unset
    /\ search_dirs = Unset
    /\ calls = Unset
    /\ frames = Unset
    /\ selected = Unset
    /\ smooth_tools = Unset
    /\ tools_exported = Unset
    /\ errors = Unset
    /\ skipped = Unset
    /\ imported = Unset
    /\ posts = Unset
    /\ shapes_dir = Unset
    /\ file_content = Unset
    /\ file_hash = Unset
    /\ file_size = Unset

\* the directory is made and the library generated
GenerateLibrary ==
    /\ pc = "export_toolset_to_freecad"
    /\ output_dir' = mkdir(output_dir)
    /\ fctl' = smooth_to_fctl(tool_set, tools_dict).val
    /\ pc' = "tools"
    /\ UNCHANGED <<ret, tool_set, tools_dict, idx, written, nonWriteVars>>

\* a plausible slip: the library file written before the loop
library_due_first(i, entries) == i = 0

\* the loop over library["tools"] has ended
library_due(i, entries) == i = Len(entries)

\* one pass of the loop over library["tools"]
WriteToolBit ==
    /\ pc = "tools"
    /\ idx < Len(fctl.f["tools"].elems)
    /\ ~library_due(idx, fctl.f["tools"].elems)
    /\ LET tool_entry == fctl.f["tools"].elems[idx + 1]
           done == export_entry(tool_entry, tools_dict, output_dir)
       IN  IF done.out.ok
           THEN /\ output_dir' = done.dir
                /\ written' = Append(written, Write("write_fctb", tool_entry.f["path"].s))
                /\ idx' = idx + 1
                /\ UNCHANGED <<pc, ret>>
           ELSE /\ ret' = done.out
                /\ pc' = "failed"
                /\ UNCHANGED <<output_dir, written, idx>>
    /\ UNCHANGED <<tool_set, tools_dict, fctl, nonWriteVars>>

\* the code after the loop
WriteLibrary ==
    /\ pc = "tools"
    /\ library_due(idx, fctl.f["tools"].elems)
    /\ LET done == library_written(tool_set, fctl, output_dir)
       IN  /\ ret' = done.out
           /\ output_dir' = done.dir
           /\ IF done.out.ok
              THEN written' = Append(written, Write("write_fctl", done.out.val.s)) /\ pc' = "exported"
              ELSE written' = written /\ pc' = "failed"
    /\ UNCHANGED <<tool_set, tools_dict, fctl, idx, nonWriteVars>>

NextWrite == GenerateLibrary \/ WriteToolBit \/ WriteLibrary

SpecWrite == InitWrite /\ [][NextWrite]_vars

----------------------------------------------------------------------------
(* SpecShape: download_and_save_shape on the attachments of exchange items, *)
(* into an output directory that exists or not                              *)

\* payloads: one, three and no bytes, an unpadded group, and null
Payloads == {Str(<<"Q", "Q", "=", "=">>), Str(<<"Q", "U", "J", "D">>), Str(<<>>),
             Str(<<"Q", "Q">>), Str(<<"Q">>), None}
References ==
    {PyObj(type @@ content) :
        type \in Optional("type", {Str(Inline), Str(<<"u", "r", "l">>),
                                   Str(<<"l", "o", "c", "a", "l", "_", "p", "a", "t", "h">>)}),
        content \in Optional("content", Payloads)}
NameM == Str(<<"m", ".", "s", "t", "e", "p">>)
NameS == Str(<<"s", ".", "f", "c", "s", "t", "d">>)
ShapeDatas ==
    {None}
      \cup {PyObj(reference @@ metadata @@ format) :
               reference \in Optional("reference", {None} \cup References),
               metadata \in Optional("metadata", {None, EmptyObj, PyObj([filename |-> NameM])}),
               format \in Optional("format", {Str(<<"s", "t", "e", "p">>)})}
Filenames == {None, Str(<<>>), NameS}
ShapeDirs ==
    {Directory(FALSE, <<>>), Directory(TRUE, <<>>),
     Directory(TRUE, NameS.s :> BytesFile(<<0>>))}

InitShape ==
    /\ pc = "download_and_save_shape"
    /\ attachment \in ShapeDatas
    /\ filename \in Filenames
    /\ output_dir \in ShapeDirs
    /\ ret = Unset
    /\ value = Unset /\ unit = Unset /\ data = Unset /\ tool = Unset /\ library = Unset
    /\ smooth_tool = Unset /\ fctb = Unset /\ items = Unset
    /\ existing_by_id = Unset /\ existing_by_sig = Unset
    /\ file_path = Unset /\ files = Unset /\ default_shape = Unset /\ fctl = Unset
    /\ tool_set = Unset /\ tools_dict = Unset
    /\ expected_hash = Unset
    /\ upload_url = Unset
    /\ shape_reference = Unset
    /\ base_dir = Unset
    /\ search_dirs = Unset
    /\ calls = Unset
    /\ frames = Unset
    /\ selected = Unset
    /\ idx = Unset
    /\ smooth_tools = Unset
    /\ tools_exported = Unset
    /\ errors = Unset
    /\ skipped = Unset
    /\ imported = Unset
    /\ posts = Unset
    /\ shapes_dir = Unset
    /\ written = Unset
    /\ file_content = Unset
    /\ file_hash = Unset
    /\ file_size = Unset

nonShapeVars == <<value, unit, data, tool, library, smooth_tool, fctb, items,
                  existing_by_id, existing_by_sig, file_path, files, default_shape, fctl,
                  tool_set, tools_dict,
    expected_hash,
    upload_url,
    shape_reference,
    base_dir,
    search_dirs,
    calls,
    frames,
    selected,
    idx,
    smooth_tools,
    tools_exported,
    errors,
    skipped,
    imported,
    posts,
    shapes_dir,
    written,
    file_content,
    file_hash,
    file_size>>

DownloadAndSaveShape ==
    /\ pc = "download_and_save_shape"
    /\ LET call == download_and_save_shape(attachment, output_dir, filename)
       IN  ret' = call.out /\ output_dir' = call.dir
    /\ pc' = "saved"
    /\ UNCHANGED <<attachment, filename, nonShapeVars>>

NextShape == DownloadAndSaveShape

SpecShape == InitShape /\ [][NextShape]_vars

----------------------------------------------------------------------------
(* SpecHash: the hashing operations of the shape storage on a directory of *)
(* shape files                                                             *)

ShapePaths == {<<"s", ".", "f", "c", "s", "t", "d">>, <<"T", ".", "S", "T", "E", "P">>}
ShapeContents == {<<>>, <<65>>, <<66>>, <<65, 66>>}
ShapeFiles == [ShapePaths -> {NoFile, Folder} \cup {BytesFile(b) : b \in ShapeContents}]
\* expected hashes: each digest, bare or behind an algorithm name, and texts
\* that are no digest of a file
ExpectedPrefixes == {<<>>, Sha256Prefix, <<"m", "d", "5", ":">>, <<":">>, <<"a", ":", "b", ":">>}
ExpectedHashes ==
    {Str(x \o sha256_hexdigest(b)) : x \in ExpectedPrefixes, b \in ShapeContents}
      \cup {Str(x) : x \in ExpectedPrefixes}
UploadUrls == {None, Str(<<"h", "t", "t", "p", ":", "/", "/", "u">>)}

nonHashVars == <<value, unit, data, tool, library, smooth_tool, fctb, items,
                 existing_by_id, existing_by_sig, default_shape, tool_set, tools_dict,
                 fctl, output_dir, attachment, filename,
    shape_reference,
    base_dir,
    search_dirs,
    calls,
    frames,
    selected,
    idx,
    smooth_tools,
    tools_exported,
    errors,
    skipped,
    imported,
    posts,
    shapes_dir,
    written,
    file_content,
    file_hash,
    file_size>>

InitHash ==
    /\ files \in ShapeFiles
    /\ \/ /\ pc \in {"calculate_file_hash", "prepare_shape_upload"}
          /\ file_path \in ShapePaths
          /\ expected_hash = Unset /\ upload_url = Unset
       \/ /\ pc = "create_shape_data_reference"
          /\ file_path \in {None} \cup {Str(p) : p \in ShapePaths}
          /\ expected_hash = Unset /\ upload_url \in UploadUrls
       \/ /\ pc = "verify_shape_file_integrity"
          /\ file_path \in ShapePaths
          /\ expected_hash \in ExpectedHashes /\ upload_url = Unset
    /\ ret = Unset
    /\ value = Unset /\ unit = Unset /\ data = Unset /\ tool = Unset /\ library = Unset
    /\ smooth_tool = Unset /\ fctb = Unset /\ items = Unset
    /\ existing_by_id = Unset /\ existing_by_sig = Unset
    /\ default_shape = Unset /\ tool_set = Unset /\ tools_dict = Unset /\ fctl = Unset
    /\ output_dir = Unset /\ attachment = Unset /\ filename = Unset
    /\ shape_reference = Unset
    /\ base_dir = Unset
    /\ search_dirs = Unset
    /\ calls = Unset
    /\ frames = Unset
    /\ selected = Unset
    /\ idx = Unset
    /\ smooth_tools = Unset
    /\ tools_exported = Unset
    /\ errors = Unset
    /\ skipped = Unset
    /\ imported = Unset
    /\ posts = Unset
    /\ shapes_dir = Unset
    /\ written = Unset
    /\ file_content = Unset
    /\ file_hash = Unset
    /\ file_size = Unset

CalculateFileHash ==
    /\ pc = "calculate_file_hash"
    /\ ret' = calculate_file_hash(file_path, files)
    /\ pc' = "hashed"
    /\ UNCHANGED <<files, file_path, expected_hash, upload_url, nonHashVars>>

\* the payload's hash is then handed to verify_shape_file_integrity
PrepareShapeUpload ==
    /\ pc = "prepare_shape_upload"
    /\ ret' = prepare_shape_upload(file_path, files)
    /\ expected_hash' = IF ret'.ok THEN ret'.val.f["hash"] ELSE expected_hash
    /\ pc' = IF ret'.ok THEN "prepared" ELSE "not_found"
    /\ UNCHANGED <<files, file_path, upload_url, nonHashVars>>

CreateShapeDataReference ==
    /\ pc = "create_shape_data_reference"
    /\ ret' = create_shape_data_reference(file_path, Str(EndmillShape), upload_url, files)
    /\ pc' = "referenced"
    /\ UNCHANGED <<files, file_path, expected_hash, upload_url, nonHashVars>>

VerifyShapeFileIntegrity ==
    /\ pc \in {"verify_shape_file_integrity", "prepared"}
    /\ ret' = verify_shape_file_integrity(file_path, expected_hash, files)
    /\ pc' = IF pc = "prepared" THEN "verified_prepared" ELSE "verified"
    /\ UNCHANGED <<files, file_path, expected_hash, upload_url, nonHashVars>>

NextHash ==
    \/ CalculateFileHash
    \/ PrepareShapeUpload
    \/ CreateShapeDataReference
    \/ VerifyShapeFileIntegrity

SpecHash == InitHash /\ [][NextHash]_vars

----------------------------------------------------------------------------
(* Specification SpecUpload: prepare_shape_upload statement by statement, with
   another process that rewrites shape files while the call runs.  The call
   looks at the file four times: exists(), the content read, the read inside
   calculate_file_hash and stat(). *)

nonUploadVars == <<value, unit, data, tool, library, smooth_tool, fctb, items,
                   existing_by_id, existing_by_sig, default_shape, tool_set,
                   tools_dict, fctl, output_dir, attachment, filename, expected_hash,
                   upload_url, shape_reference, base_dir, search_dirs, calls, frames,
                   selected, idx, smooth_tools, tools_exported, errors, skipped,
                   imported, posts, shapes_dir, written>>

InitUpload ==
    /\ pc = "exists"
    /\ files \in ShapeFiles
    /\ file_path \in ShapePaths
    /\ file_content = Unset /\ file_hash = Unset /\ file_size = Unset
    /\ ret = Unset
    /\ value = Unset
    /\ unit = Unset
    /\ data = Unset
    /\ tool = Unset
    /\ library = Unset
    /\ smooth_tool = Unset
    /\ fctb = Unset
    /\ items = Unset
    /\ existing_by_id = Unset
    /\ existing_by_sig = Unset
    /\ default_shape = Unset
    /\ tool_set = Unset
    /\ tools_dict = Unset
    /\ fctl = Unset
    /\ output_dir = Unset
    /\ attachment = Unset
    /\ filename = Unset
    /\ expected_hash = Unset
    /\ upload_url = Unset
    /\ shape_reference = Unset
    /\ base_dir = Unset
    /\ search_dirs = Unset
    /\ calls = Unset
    /\ frames = Unset
    /\ selected = Unset
    /\ idx = Unset
    /\ smooth_tools = Unset
    /\ tools_exported = Unset
    /\ errors = Unset
    /\ skipped = Unset
    /\ imported = Unset
    /\ posts = Unset
    /\ shapes_dir = Unset
    /\ written = Unset

\* if not shape_file_path.exists(): raise FileNotFoundError(...)
UploadExists ==
    /\ pc = "exists"
    /\ IF files[file_path].kind = "absent"
       THEN ret' = NotFound /\ pc' = "failed"
       ELSE ret' = ret /\ pc' = "read"
    /\ UNCHANGED <<files, file_path, file_content, file_hash, file_size, nonUploadVars>>

\* with open(shape_file_path, 'rb') as f: file_content = f.read()
UploadReadContent ==
    /\ pc = "read"
    /\ IF files[file_path].kind = "bytes"
       THEN file_content' = files[file_path] /\ ret' = ret /\ pc' = "hash"
       ELSE /\ ret' = IF files[file_path].kind = "directory" THEN IsADirectory ELSE NotFound
            /\ file_content' = file_content /\ pc' = "failed"
    /\ UNCHANGED <<files, file_path, file_hash, file_size, nonUploadVars>>

\* file_hash = calculate_file_hash(shape_file_path): the file is opened and
\* read a second time
UploadHash ==
    /\ pc = "hash"
    /\ LET hashed == calculate_file_hash(file_path, files)
       IN  IF hashed.ok
           THEN file_hash' = hashed.val /\ ret' = ret /\ pc' = "stat"
           ELSE file_hash' = file_hash /\ ret' = hashed /\ pc' = "failed"
    /\ UNCHANGED <<files, file_path, file_content, file_size, nonUploadVars>>

\* file_size = shape_file_path.stat().st_size
UploadStat ==
    /\ pc = "stat"
    /\ IF files[file_path].kind = "bytes"
       THEN file_size' = PyInt(Len(files[file_path].value)) /\ ret' = ret /\ pc' = "return"
       ELSE file_size' = file_size /\ ret' = NotFound /\ pc' = "failed"
    /\ UNCHANGED <<files, file_path, file_content, file_hash, nonUploadVars>>

\* the suffix, the base64 text and the returned dictionary
UploadReturn ==
    /\ pc = "return"
    /\ ret' = Return(PyObj([filename |-> Str(file_path),
                            format |-> file_format_of(file_path),
                            content |-> Str(b64encode(file_content.value)),
                            hash |-> Str(Sha256Prefix \o file_hash.s),
                            size_bytes |-> file_size]))
    /\ pc' = "prepared"
    /\ UNCHANGED <<files, file_path, file_content, file_hash, file_size, nonUploadVars>>

\* another process rewrites a shape file while the call is running
OtherProcessWrites ==
    /\ pc \in {"exists", "read", "hash", "stat", "return"}
    /\ \E p \in ShapePaths, b \in ShapeContents :
          /\ files[p].kind = "bytes"
          /\ files[p].value # b
          /\ files' = [files EXCEPT ![p] = BytesFile(b)]
    /\ UNCHANGED <<pc, ret, file_path, file_content, file_hash, file_size, nonUploadVars>>

NextUpload ==
    \/ UploadExists
    \/ UploadReadContent
    \/ UploadHash
    \/ UploadStat
    \/ UploadReturn
    \/ OtherProcessWrites

SpecUpload == InitUpload /\ [][NextUpload]_vars

----------------------------------------------------------------------------
(* SpecResolve: resolve_shape_file_path over directories that hold, or do  *)
(* not hold, the shape file                                                *)

MaxDirs == 2
DirNames == {"a", "b", "c"}
ShapeName == "s.fcstd"
\* what exists: each directory is absent, empty, or holds the shape file
Worlds ==
    {UNION {w[d] : d \in DirNames} :
        w \in [DirNames -> {{}} \cup {{<<d>>} : d \in DirNames}
                               \cup {{<<d>>, <<d, ShapeName>>} : d \in DirNames}]}
\* the shape's name, a name no directory holds, the empty text, an absolute path
ShapeReferences ==
    {Reference(FALSE, <<ShapeName>>), Reference(FALSE, <<"t.fcstd">>), Reference(FALSE, <<>>),
     Reference(TRUE, <<"a", ShapeName>>)}
SearchDirs == {None} \cup {PyList(l) : l \in SeqsUpTo({<<d>> : d \in DirNames}, MaxDirs)}

nonResolveVars == <<value, unit, data, tool, library, smooth_tool, fctb, items,
                    existing_by_id, existing_by_sig, file_path, default_shape,
                    tool_set, tools_dict, fctl, output_dir, attachment, filename,
                    expected_hash, upload_url,
    calls,
    frames,
    selected,
    idx,
    smooth_tools,
    tools_exported,
    errors,
    skipped,
    imported,
    posts,
    shapes_dir,
    written,
    file_content,
    file_hash,
    file_size>>

InitResolve ==
    /\ pc = "resolve_shape_file_path"
    /\ files \in Worlds
    /\ shape_reference \in ShapeReferences
    /\ base_dir \in {<<d>> : d \in DirNames}
    /\ search_dirs \in SearchDirs
    /\ ret = Unset
    /\ value = Unset /\ unit = Unset /\ data = Unset /\ tool = Unset /\ library = Unset
    /\ smooth_tool = Unset /\ fctb = Unset /\ items = Unset
    /\ existing_by_id = Unset /\ existing_by_sig = Unset /\ file_path = Unset
    /\ default_shape = Unset /\ tool_set = Unset /\ tools_dict = Unset /\ fctl = Unset
    /\ output_dir = Unset /\ attachment = Unset /\ filename = Unset
    /\ expected_hash = Unset /\ upload_url = Unset
    /\ calls = Unset
    /\ frames = Unset
    /\ selected = Unset
    /\ idx = Unset
    /\ smooth_tools = Unset
    /\ tools_exported = Unset
    /\ errors = Unset
    /\ skipped = Unset
    /\ imported = Unset
    /\ posts = Unset
    /\ shapes_dir = Unset
    /\ written = Unset
    /\ file_content = Unset
    /\ file_hash = Unset
    /\ file_size = Unset

ResolveShapeFilePath ==
    /\ pc = "resolve_shape_file_path"
    /\ ret' = resolve_shape_file_path(shape_reference, base_dir, search_dirs, files)
    /\ pc' = "resolved"
    /\ UNCHANGED <<files, shape_reference, base_dir, search_dirs, nonResolveVars>>

NextResolve == ResolveShapeFilePath

SpecResolve == InitResolve /\ [][NextResolve]_vars

----------------------------------------------------------------------------
(* SpecParallel: two threads, each making one call of a conversion or      *)
(* parsing function, their steps interleaved in every order                *)

Threads == {1, 2}
Call(fn, a, b) == [fn |-> fn, args |-> <<a, b>>]
\* the function `fn` applied to the arguments bound in a frame
apply(fn, args) ==
    CASE fn = "parse_fctb_dict" -> parse_fctb_dict(args[1])
      [] fn = "fctb_to_smooth" -> fctb_to_smooth(args[1])
      [] fn = "smooth_to_fctb" -> smooth_to_fctb(args[1], args[2])
      [] fn = "parse_fctl_dict" -> parse_fctl_dict(args[1])
      [] fn = "smooth_to_fctl" -> smooth_to_fctl(args[1], args[2])

ProbeDoc == PyObj(BitDoc(ShapeFile, Str(ProbeShape), EmptyDict) @@ ("id" :> IdX))
LibraryDocL ==
    PyObj([version |-> PyInt(1), label |-> LabelL,
           tools |-> PyList(<<PyObj([nr |-> PyInt(1), path |-> BitPathA])>>)])
ToolSetS ==
    PyObj([name |-> SetS,
           members |-> PyList(<<PyObj([tool_number |-> PyInt(2), tool_path |-> BitPathA])>>)])
Calls ==
    {Call("parse_fctb_dict", d, None) :
        d \in {PyObj(WholeDoc), ProbeDoc, PyInt(5), PyObj([name |-> ToolName])}}
      \cup {Call("fctb_to_smooth", parse_fctb_dict(d).val, None) : d \in {PyObj(WholeDoc), ProbeDoc}}
      \cup {Call("smooth_to_fctb", st, DefaultShape) :
               st \in {ItemT, ItemNoUnit, fctb_to_smooth(parse_fctb_dict(PyObj(WholeDoc)).val).val}}
      \cup {Call("parse_fctl_dict", d, None) : d \in {LibraryDocL, PyObj([version |-> PyInt(1)])}}
      \cup {Call("smooth_to_fctl", ts, td) :
               ts \in {ToolSetS, PyObj([name |-> SetS])},
               td \in {None, PyDict(<<[k |-> PyInt(1), v |-> ItemT]>>)}}

\* a plausible slip: the functions keep their working values in one
\* module-level place instead of in the locals of each call
frame_shared(p) == 1

\* a call's parameters and locals live in the frame of that call
frame_of(p) == p

Frame(call) == [code |-> call.fn, locals |-> call.args, result |-> Unset]

nonParallelVars == <<value, unit, data, tool, library, smooth_tool, fctb, items,
                     existing_by_id, existing_by_sig, file_path, files, default_shape,
                     tool_set, tools_dict, fctl, output_dir, attachment, filename,
                     expected_hash, upload_url, shape_reference, base_dir, search_dirs,
    selected,
    idx,
    smooth_tools,
    tools_exported,
    errors,
    skipped,
    imported,
    posts,
    shapes_dir,
    written,
    file_content,
    file_hash,
    file_size>>

InitParallel ==
    /\ calls \in {c \in [Threads -> Calls] : c[1].args # c[2].args}
    /\ pc = [p \in Threads |-> "call"]
    /\ frames = [p \in Threads |-> Unset]
    /\ ret = [p \in Threads |-> Unset]
    /\ value = Unset
    /\ unit = Unset
    /\ data = Unset
    /\ tool = Unset
    /\ library = Unset
    /\ smooth_tool = Unset
    /\ fctb = Unset
    /\ items = Unset
    /\ existing_by_id = Unset
    /\ existing_by_sig = Unset
    /\ file_path = Unset
    /\ files = Unset
    /\ default_shape = Unset
    /\ tool_set = Unset
    /\ tools_dict = Unset
    /\ fctl = Unset
    /\ output_dir = Unset
    /\ attachment = Unset
    /\ filename = Unset
    /\ expected_hash = Unset
    /\ upload_url = Unset
    /\ shape_reference = Unset
    /\ base_dir = Unset
    /\ search_dirs = Unset
    /\ selected = Unset
    /\ idx = Unset
    /\ smooth_tools = Unset
    /\ tools_exported = Unset
    /\ errors = Unset
    /\ skipped = Unset
    /\ imported = Unset
    /\ posts = Unset
    /\ shapes_dir = Unset
    /\ written = Unset
    /\ file_content = Unset
    /\ file_hash = Unset
    /\ file_size = Unset

\* the call binds its arguments
Enter(p) ==
    /\ pc[p] = "call"
    /\ frames' = [frames EXCEPT ![frame_of(p)] = Frame(calls[p])]
    /\ pc' = [pc EXCEPT ![p] = "body"]
    /\ UNCHANGED <<calls, ret, nonParallelVars>>

\* the body runs on what the frame holds
Body(p) ==
    /\ pc[p] = "body"
    /\ frames[frame_of(p)] # Unset
    /\ frames' = [frames EXCEPT ![frame_of(p)].result =
                     apply(frames[frame_of(p)].code, frames[frame_of(p)].locals)]
    /\ pc' = [pc EXCEPT ![p] = "return"]
    /\ UNCHANGED <<calls, ret, nonParallelVars>>

\* the result, or the exception, reaches the caller and the frame is gone
Leave(p) ==
    /\ pc[p] = "return"
    /\ frames[frame_of(p)] # Unset
    /\ ret' = [ret EXCEPT ![p] = frames[frame_of(p)].result]
    /\ frames' = [frames EXCEPT ![frame_of(p)] = Unset]
    /\ pc' = [pc EXCEPT ![p] = "done"]
    /\ UNCHANGED <<calls, nonParallelVars>>

NextParallel == \E p \in Threads : Enter(p) \/ Body(p) \/ Leave(p)

SpecParallel == InitParallel /\ [][NextParallel]_vars

\* Every conversion and parsing function of the tool-bit and library modules,
\* each started on its own inputs
InitConvert == InitBit \/ InitLib
NextConvert == NextBit \/ NextLib
SpecConvert == InitConvert /\ [][NextConvert]_vars

----------------------------------------------------------------------------
(* Specification SpecFile: parse_fctb or parse_fctl is called on a path of a *)
(* file system                                                               *)

Paths == {"T1.fctb", "Library.fctl"}

FileValues ==
    OddDocs \cup OddLibraryDocs
      \cup {PyObj(WholeDoc),
            PyObj([k \in (DOMAIN WholeDoc \ {"shape", "id"}) |-> WholeDoc[k]]),
            PyObj(BitDoc(ShapeFile, Str(EndmillShape), EmptyDict)),
            PyObj([version |-> PyInt(1), tools |-> PyList(<<>>)]),
            PyObj([version |-> PyInt(1), label |-> LabelL,
                   tools |-> PyList(<<PyObj([nr |-> PyInt(1), path |-> BitPathA])>>)]),
            PyObj([version |-> PyInt(1), tools |-> None]),
            PyObj([label |-> LabelL]),
            EmptyObj}

Contents == {NoFile, Unreadable, NotJson} \cup {JsonFile(v) : v \in FileValues}

InitFile ==
    /\ pc \in {"parse_fctb", "parse_fctl"}
    /\ files \in [Paths -> Contents]
    /\ file_path \in Paths
    /\ data = Unset /\ tool = Unset /\ library = Unset /\ ret = Unset
    /\ smooth_tool = Unset /\ fctb = Unset
    /\ value = Unset /\ unit = Unset
    /\ items = Unset /\ existing_by_id = Unset /\ existing_by_sig = Unset
    /\ default_shape = Unset
    /\ tool_set = Unset
    /\ tools_dict = Unset
    /\ fctl = Unset
    /\ output_dir = Unset
    /\ attachment = Unset
    /\ filename = Unset
    /\ expected_hash = Unset
    /\ upload_url = Unset
    /\ shape_reference = Unset
    /\ base_dir = Unset
    /\ search_dirs = Unset
    /\ calls = Unset
    /\ frames = Unset
    /\ selected = Unset
    /\ idx = Unset
    /\ smooth_tools = Unset
    /\ tools_exported = Unset
    /\ errors = Unset
    /\ skipped = Unset
    /\ imported = Unset
    /\ posts = Unset
    /\ shapes_dir = Unset
    /\ written = Unset
    /\ file_content = Unset
    /\ file_hash = Unset
    /\ file_size = Unset

nonFileVars == <<data, value, unit, smooth_tool, fctb, items, existing_by_id,
                 existing_by_sig,
    default_shape,
    tool_set,
    tools_dict,
    fctl,
    output_dir,
    attachment,
    filename,
    expected_hash,
    upload_url,
    shape_reference,
    base_dir,
    search_dirs,
    calls,
    frames,
    selected,
    idx,
    smooth_tools,
    tools_exported,
    errors,
    skipped,
    imported,
    posts,
    shapes_dir,
    written,
    file_content,
    file_hash,
    file_size>>

ParseFctb ==
    /\ pc = "parse_fctb"
    /\ ret' = parse_fctb(file_path, files)
    /\ tool' = Result(ret')
    /\ pc' = "parsed_fctb"
    /\ UNCHANGED <<file_path, files, library, nonFileVars>>

ParseFctl ==
    /\ pc = "parse_fctl"
    /\ ret' = parse_fctl(file_path, files)
    /\ library' = Result(ret')
    /\ pc' = "parsed_fctl"
    /\ UNCHANGED <<file_path, files, tool, nonFileVars>>

NextFile == ParseFctb \/ ParseFctl

SpecFile == InitFile /\ [][NextFile]_vars

----------------------------------------------------------------------------
(* Specification SpecDup: export_tool_bits indexes the items fetched from the *)
(* server and checks a candidate against the indexes                          *)

\* number of items fetched from the server
MaxItems == 2

Diameter6 == Float(FALSE, 6 * Scale)
GeometryOf(diam) == PyDict(<<[k |-> DiameterKey, v |-> diam]>>)

\* the items the server holds
FetchedItems ==
    {PyObj([id |-> Str(<<"s", "1">>), description |-> ToolName,
            geometry |-> GeometryOf(Diameter6),
            freecad_metadata |-> PyObj([id |-> IdX])]),
     PyObj([id |-> Str(<<"s", "2">>), description |-> ToolName, geometry |-> EmptyDict,
            freecad_metadata |-> PyObj([id |-> IdY])]),
     PyObj([id |-> Str(<<"s", "3">>), description |-> ToolName,
            geometry |-> GeometryOf(PyInt(6))]),
     PyObj([id |-> IdX, description |-> Str(<<>>), geometry |-> GeometryOf(Diameter6),
            freecad_metadata |-> PyObj([id |-> None])]),
     PyObj([id |-> Str(<<"s", "5">>), description |-> Str(<<"T", "2">>),
            freecad_metadata |-> None]),
     PyObj([id |-> Str(<<"s", "6">>), description |-> ToolName, geometry |-> None,
            freecad_metadata |-> PyObj([id |-> IdX])])}

\* candidates as fctb_to_smooth makes them from a tool bit
DupDocs ==
    {PyObj(BitDoc(ShapeFile, Str(EndmillShape), parameter) @@ id) :
        parameter \in {EmptyDict,
                       PyDict(<<[k |-> <<"D", "i", "a", "m", "e", "t", "e", "r">>, v |-> Str(<<"6", ".", "0", "0", " ", "m", "m">>)]>>)},
        id \in Optional("id", {IdX, IdY})}
ConvertedCandidates == {fctb_to_smooth(parse_fctb_dict(d).val).val : d \in DupDocs}

\* candidates of any origin
DirectCandidates ==
    {PyObj(id @@ metadata @@ description @@ geometry) :
        id \in Optional("id", {IdX, None}),
        metadata \in Optional("freecad_metadata", {PyObj([id |-> IdX]), PyObj([id |-> IdY])}),
        description \in Optional("description", {ToolName, Str(<<>>)}),
        geometry \in Optional("geometry", {EmptyDict, GeometryOf(Diameter6),
                                           GeometryOf(PyInt(6)), None})}

InitDup ==
    /\ pc = "fetch"
    /\ items \in SeqsUpTo(FetchedItems, MaxItems)
    /\ smooth_tool \in ConvertedCandidates \cup DirectCandidates
    /\ existing_by_id = <<>> /\ existing_by_sig = <<>>
    /\ ret = Unset
    /\ data = Unset /\ tool = Unset /\ library = Unset /\ fctb = Unset
    /\ value = Unset /\ unit = Unset
    /\ file_path = Unset /\ files = Unset
    /\ default_shape = Unset
    /\ tool_set = Unset
    /\ tools_dict = Unset
    /\ fctl = Unset
    /\ output_dir = Unset
    /\ attachment = Unset
    /\ filename = Unset
    /\ expected_hash = Unset
    /\ upload_url = Unset
    /\ shape_reference = Unset
    /\ base_dir = Unset
    /\ search_dirs = Unset
    /\ calls = Unset
    /\ frames = Unset
    /\ selected = Unset
    /\ idx = Unset
    /\ smooth_tools = Unset
    /\ tools_exported = Unset
    /\ errors = Unset
    /\ skipped = Unset
    /\ imported = Unset
    /\ posts = Unset
    /\ shapes_dir = Unset
    /\ written = Unset
    /\ file_content = Unset
    /\ file_hash = Unset
    /\ file_size = Unset

nonDupVars == <<data, value, unit, tool, library, fctb, file_path, files,
    default_shape,
    tool_set,
    tools_dict,
    fctl,
    output_dir,
    attachment,
    filename,
    expected_hash,
    upload_url,
    shape_reference,
    base_dir,
    search_dirs,
    calls,
    frames,
    selected,
    idx,
    smooth_tools,
    tools_exported,
    errors,
    skipped,
    imported,
    posts,
    shapes_dir,
    written,
    file_content,
    file_hash,
    file_size>>

\* the fetch of the existing items at the head of export_tool_bits
FetchExisting ==
    /\ pc = "fetch"
    /\ existing_by_id' = index_loop(items, <<>>, <<>>).by_id
    /\ existing_by_sig' = index_loop(items, <<>>, <<>>).by_sig
    /\ pc' = "check_duplicates"
    /\ UNCHANGED <<items, smooth_tool, ret, nonDupVars>>

CheckDuplicates ==
    /\ pc = "check_duplicates"
    /\ ret' = check_duplicates(smooth_tool, existing_by_id, existing_by_sig)
    /\ pc' = "done"
    /\ UNCHANGED <<items, smooth_tool, existing_by_id, existing_by_sig, nonDupVars>>

NextDup == FetchExisting \/ CheckDuplicates

SpecDup == InitDup /\ [][NextDup]_vars

----------------------------------------------------------------------------
(* SpecBatch: export_tool_bits over the selected tool-bit files and        *)
(* import_tool_items over the selected exchange items, one step per        *)
(* selected entry                                                          *)

MaxSelected == 2
\* the sequences of at most n different members of S
DistinctSeqs(S, n) == {q \in SeqsUpTo(S, n) : \A i, j \in 1..Len(q) : q[i] = q[j] => i = j}

BitFile(name) == ToolBitsDir \o <<name>>
\* the tool-bit files of the directory as they are when the export runs: two
\* tool bits, one with a shape file and one without, a malformed file, a file
\* removed since the list was loaded, JSON that is no document, a document
\* without parameters
BitFiles ==
    (BitFile(<<"a">>) :> JsonFile(PyObj(WholeDoc)))
      @@ (BitFile(<<"b">>) :> JsonFile(PyObj(BitDoc(Str(<<>>), Str(ProbeShape), EmptyDict))))
      @@ (BitFile(<<"c">>) :> NotJson)
      @@ (BitFile(<<"d">>) :> NoFile)
      @@ (BitFile(<<"e">>) :> JsonFile(PyInt(5)))
      @@ (BitFile(<<"f">>) :> JsonFile(PyObj(BitDoc(ShapeFile, Str(EndmillShape), None))))
\* where the shape file of the tool bits is found
ShapeCandidates ==
    {(<<ShapeFile.s>> :> a) @@ (<<BitDirName, ShapeFile.s>> :> b)
        @@ (<<ShapeDirName, ShapeFile.s>> :> c) :
        a \in {NoFile, BytesFile(<<65>>)}, b \in {NoFile, BytesFile(<<66>>)},
        c \in {NoFile, BytesFile(<<65, 66>>), Folder}}
\* what the server answers to the fetch of the existing items; None: the
\* request fails
Fetched == {None} \cup {PyList(q) : q \in SeqsUpTo({i \in FetchedItems : Has(i, "geometry") /\ IsDict(i.f["geometry"])}, 1)}

\* the exchange items of the list, as load_tool_items accepts them
InlineShape ==
    PyObj([format |-> Str(FcstdFormat),
           reference |-> PyObj([type |-> Str(Inline), content |-> Str(<<"Q", "Q", "=", "=">>)]),
           metadata |-> PyObj([filename |-> NameS])])
ListedItems ==
    {ItemT, ItemNoUnit,
     PyObj([type |-> Str(CuttingTool), description |-> ToolName, id |-> IdY,
            shape_data |-> InlineShape]),
     PyObj([type |-> Str(CuttingTool), description |-> ToolName,
            freecad_metadata |-> PyObj([id |-> IdX]),
            shape_data |-> PyObj([reference |-> PyObj([type |-> Str(Inline), content |-> Str(<<"Q">>)])])]),
     PyObj([type |-> Str(CuttingTool), description |-> ToolName, freecad_metadata |-> None])}

nonBatchVars == <<value, unit, data, tool, library, smooth_tool, fctb, file_path,
                  default_shape, tool_set, tools_dict, fctl, attachment, filename,
                  expected_hash, upload_url, shape_reference, base_dir, search_dirs,
                  calls, frames,
    written,
    file_content,
    file_hash,
    file_size>>

\* what a call of export_tool_bits starts from: the selection, the files, the
\* answer to the fetch
ExportInputs ==
    DistinctSeqs(DOMAIN BitFiles, MaxSelected)
      \X {BitFiles @@ s : s \in ShapeCandidates} \X Fetched
\* what a call of import_tool_items starts from: the selection, tool_bits_dir
\* and shapes_dir
ImportInputs ==
    DistinctSeqs(ListedItems, MaxSelected)
      \X {Directory(FALSE, <<>>), Directory(TRUE, <<>>)}
      \X {Directory(FALSE, <<>>), Directory(TRUE, <<>>)}

InitBatch ==
    /\ \/ /\ pc = "export_tool_bits"
          /\ \E x \in ExportInputs : selected = x[1] /\ files = x[2] /\ items = x[3]
          /\ existing_by_id = <<>> /\ existing_by_sig = <<>>
          /\ smooth_tools = <<>> /\ tools_exported = 0 /\ skipped = 0
          /\ imported = 0 /\ output_dir = Unset /\ shapes_dir = Unset
       \/ /\ pc = "import_tool_items"
          /\ \E x \in ImportInputs : selected = x[1] /\ output_dir = x[2] /\ shapes_dir = x[3]
          /\ imported = 0
          /\ files = <<>> /\ items = Unset
          /\ existing_by_id = <<>> /\ existing_by_sig = <<>>
          /\ smooth_tools = <<>> /\ tools_exported = 0 /\ skipped = 0
    /\ idx = 0 /\ errors = 0 /\ posts = <<>>
    /\ ret = Unset
    /\ value = Unset
    /\ unit = Unset
    /\ data = Unset
    /\ tool = Unset
    /\ library = Unset
    /\ smooth_tool = Unset
    /\ fctb = Unset
    /\ file_path = Unset
    /\ default_shape = Unset
    /\ tool_set = Unset
    /\ tools_dict = Unset
    /\ fctl = Unset
    /\ attachment = Unset
    /\ filename = Unset
    /\ expected_hash = Unset
    /\ upload_url = Unset
    /\ shape_reference = Unset
    /\ base_dir = Unset
    /\ search_dirs = Unset
    /\ calls = Unset
    /\ frames = Unset
    /\ written = Unset
    /\ file_content = Unset
    /\ file_hash = Unset
    /\ file_size = Unset

\* the head of export_tool_bits: nothing selected, or the fetch of the
\* existing items, which may fail and leaves the indexes as far as filled
ExportFetch ==
    /\ pc = "export_tool_bits"
    /\ IF selected = <<>>
       THEN /\ ret' = Return(<<0, 0>>)
            /\ pc' = "returned"
            /\ UNCHANGED <<existing_by_id, existing_by_sig>>
       ELSE /\ existing_by_id' = IF items = None THEN <<>>
                                 ELSE index_loop(items.elems, <<>>, <<>>).by_id
            /\ existing_by_sig' = IF items = None THEN <<>>
                                  ELSE index_loop(items.elems, <<>>, <<>>).by_sig
            /\ pc' = "selected_bits"
            /\ ret' = ret
    /\ UNCHANGED <<selected, idx, smooth_tools, tools_exported, errors, skipped, imported,
                   posts, shapes_dir, items, files, output_dir, nonBatchVars>>

\* one pass of the loop over selected_bits
ExportBit ==
    /\ pc = "selected_bits"
    /\ idx < Len(selected)
    /\ LET done == export_bit(selected[idx + 1], files, existing_by_id, existing_by_sig)
       IN  /\ errors' = IF done.counted = "errors" THEN errors + 1 ELSE errors
           /\ skipped' = IF done.counted = "skipped" THEN skipped + 1 ELSE skipped
           /\ smooth_tools' = IF done.counted = "smooth_tools"
                              THEN Append(smooth_tools, done.tool) ELSE smooth_tools
    /\ idx' = idx + 1
    /\ UNCHANGED <<pc, ret, selected, tools_exported, imported, posts, shapes_dir, items,
                   existing_by_id, existing_by_sig, files, output_dir, nonBatchVars>>

\* after the loop: the bulk POST when there is something to send, which
\* succeeds or fails, and the return
ExportFinish ==
    /\ pc = "selected_bits"
    /\ idx = Len(selected)
    /\ IF smooth_tools # <<>>
       THEN /\ posts' = Append(posts, smooth_tools)
            /\ \/ /\ tools_exported' = Len(smooth_tools)
                  /\ errors' = errors
               \/ /\ tools_exported' = tools_exported
                  /\ errors' = bulk_failed(errors, smooth_tools)
       ELSE UNCHANGED <<posts, tools_exported, errors>>
    /\ ret' = Return(<<tools_exported', errors'>>)
    /\ pc' = "returned"
    /\ UNCHANGED <<selected, idx, smooth_tools, skipped, imported, shapes_dir, items,
                   existing_by_id, existing_by_sig, files, output_dir, nonBatchVars>>

\* one pass of the loop over selected_items
ImportItem ==
    /\ pc = "import_tool_items"
    /\ idx < Len(selected)
    /\ LET done == import_item(selected[idx + 1], output_dir, shapes_dir)
       IN  /\ imported' = IF done.ok THEN imported + 1 ELSE imported
           /\ errors' = IF done.ok THEN errors ELSE errors + 1
           /\ output_dir' = done.dir
           /\ shapes_dir' = done.shapes
    /\ idx' = idx + 1
    /\ UNCHANGED <<pc, ret, selected, smooth_tools, tools_exported, skipped, posts, items,
                   existing_by_id, existing_by_sig, files, nonBatchVars>>

ImportFinish ==
    /\ pc = "import_tool_items"
    /\ idx = Len(selected)
    /\ ret' = Return(<<imported, errors>>)
    /\ pc' = "returned"
    /\ UNCHANGED <<selected, idx, smooth_tools, tools_exported, errors, skipped, imported,
                   posts, shapes_dir, items, existing_by_id, existing_by_sig, files,
                   output_dir, nonBatchVars>>

NextBatch == ExportFetch \/ ExportBit \/ ExportFinish \/ ImportItem \/ ImportFinish

SpecBatch == InitBatch /\ [][NextBatch]_vars

----------------------------------------------------------------------------
(* Claims about the codec, checked under SpecCodec *)

\* length of the longest prefix of s that is a signed decimal number (0: none)
LeadingNumberLen(s) ==
    LET K == {k \in 1..Len(s) : IsNumberText(SubSeq(s, 1, k))}
    IN  IF K = {} THEN 0 ELSE CHOOSE k \in K : \A j \in K : j <= k

HasLineBreak(s) == \E i \in 1..Len(s) : s[i] = "\n"
HasIndicator(s) == \E c \in UnitIndicators : Contains(s, c)

\* what the claim says parse_parameter_value returns for v; with no_break the
\* remainder must, in addition, hold no line break after its leading white space
ExpectedParse(v, no_break) ==
    IF ~IsStr(v) THEN v
    ELSE LET s == Strip(v.s)
             k == LeadingNumberLen(s)
             rem == From(s, k + 1)
         IN  IF /\ k > 0
                /\ rem # <<>>
                /\ HasIndicator(rem)
                /\ no_break => ~HasLineBreak(Strip(rem))
             THEN UnitValue(float(SubSeq(s, 1, k)), Str(Strip(rem)))
             ELSE v

\* C5 as stated: a non-textual input is returned unchanged; a text yields
\* {value, unit} exactly when its trimmed form is a leading signed decimal number
\* followed by a non-empty remainder containing one of m, °, in, deg (value the
\* number, unit the trimmed remainder); otherwise the original text is returned.
C5_ParseAsStated == pc = "parsed" => ret = Return(ExpectedParse(value, FALSE))

\* C5 amended: as stated, and {value, unit} is returned only if the remainder
\* holds no line break after its leading white space; a text whose remainder
\* holds one is returned unchanged.
C5_ParseNoLineBreak == pc = "parsed" => ret = Return(ExpectedParse(value, TRUE))

\* C5 witness: a text with white space around the number and the unit, one of
\* them a line break, was parsed into {value, unit}
C5_Witness ==
    /\ pc = "parsed"
    /\ IsStr(value) /\ HasLineBreak(value.s) /\ value.s # Strip(value.s)
    /\ IsDict(ret.val)

\* s is a number written with exactly two digits after the point
IsTwoDecimalText(s) ==
    /\ IsNumberText(s)
    /\ Len(s) >= 4
    /\ s[Len(s) - 2] = "."
    /\ IsDigit(s[Len(s) - 3])

\* the two-decimal text s denotes the multiple of 0.01 nearest to the number v
IsNearestHundredth(v, s) ==
    LET f == float(s)
        neg == CASE v.t = "float" -> v.neg [] v.t = "int" -> v.i < 0 [] OTHER -> FALSE
        mag == CASE v.t = "float" -> v.mag
                 [] v.t = "int" -> (IF v.i < 0 THEN -v.i ELSE v.i) * Scale
                 [] OTHER -> IF v.b THEN Scale ELSE 0
        d == IF f.mag > mag THEN f.mag - mag ELSE mag - f.mag
    IN  (s[1] = "-") = neg /\ 200 * d <= Scale /\ f.mag % (Scale \div 100) = 0

\* C6: without unit the result is str(value); with a unit and a numeric value it
\* is the value with exactly two decimal digits, followed directly by the unit
\* when the unit is the degree sign and by one space and the unit otherwise (zero
\* is rendered as 0.00, not omitted); with a unit and a non-numeric value it is
\* str(value), the unit dropped.
C6_Format ==
    pc = "formatted" =>
        /\ ret.ok /\ IsStr(ret.val)
        /\ unit = None => ret.val.s = PyStr(value)
        /\ unit # None /\ ~IsNumeric(value) => ret.val.s = PyStr(value)
        /\ unit # None /\ IsNumeric(value) =>
              \E n \in 1..Len(ret.val.s) :
                  /\ IsTwoDecimalText(SubSeq(ret.val.s, 1, n))
                  /\ IsNearestHundredth(value, SubSeq(ret.val.s, 1, n))
                  /\ From(ret.val.s, n + 1) =
                        IF unit = Str(DegreeSign) THEN DegreeSign
                        ELSE <<" ">> \o unit.s
        /\ unit = Str(<<"m", "m">>) /\ value \in {PyInt(0), Float(FALSE, 0)} =>
              ret.val.s = <<"0", ".", "0", "0", " ", "m", "m">>

\* C6 witness: a zero value was formatted with a unit, and a value was rounded
C6_Witness ==
    /\ pc = "formatted"
    /\ unit = Str(<<"m", "m">>)
    /\ value = Float(FALSE, 0)
    /\ ret.val.s = <<"0", ".", "0", "0", " ", "m", "m">>

----------------------------------------------------------------------------
(* Claims about the tool-bit parser and converter, checked under SpecBit *)

\* a text that is a number followed by a unit
IsUnitDecorated(v) ==
    /\ IsStr(v)
    /\ LET s == Strip(v.s)
           k == LeadingNumberLen(s)
       IN  k > 0 /\ HasIndicator(From(s, k + 1)) /\ ~HasLineBreak(From(s, k + 1))

\* C1 as stated: for every accepted document d the round trip
\* smooth_to_fctb(fctb_to_smooth(parse_fctb_dict(d))) yields a document with the
\* version, name, shape and shape-type of d, and every parameter of d whose value
\* is a unit-decorated text is found in it under the same name with the same text.
C1_RoundTripAsStated ==
    (data # Unset /\ tool # Unset /\ pc = "done") =>
        /\ fctb # Unset
        /\ \A k \in {"version", "name", "shape", "shape-type"} : fctb.f[k] = data.f[k]
        /\ LET before == data.f["parameter"].items
               after == fctb.f["parameter"].items
           IN  \A i \in 1..Len(before) :
                   IsUnitDecorated(before[i].v) =>
                       /\ before[i].k \in KeysOf(after)
                       /\ ValueAt(after, before[i].k) = before[i].v

\* C2 as stated: when the geometry of an exchange item holds a dimensional key
\* without its <key>_unit sibling, smooth_to_fctb returns no document and raises
\* a ValueError naming such a key and its unit field, whatever the value's type.
C2_MissingUnitAsStated ==
    (pc = "done" /\ smooth_tool # Unset /\ Has(smooth_tool, "geometry")
       /\ IsDict(smooth_tool.f["geometry"])) =>
        LET g == KeysOf(smooth_tool.f["geometry"].items)
            lacking ==
                {k \in {<<"d", "i", "a", "m", "e", "t", "e", "r">>,
                        <<"l", "e", "n", "g", "t", "h">>,
                        <<"h", "e", "i", "g", "h", "t">>,
                        <<"a", "n", "g", "l", "e">>,
                        <<"t", "i", "p", "_", "a", "n", "g", "l", "e">>,
                        <<"c", "u", "t", "t", "i", "n", "g", "_", "e", "d", "g", "e", "_", "h", "e", "i", "g", "h", "t">>,
                        <<"s", "h", "a", "n", "k", "_", "d", "i", "a", "m", "e", "t", "e", "r">>} :
                    k \in g /\ (k \o <<"_", "u", "n", "i", "t">>) \notin g}
        IN  lacking # {} =>
                /\ fctb = Unset
                /\ ~ret.ok /\ ret.exc = "ValueError"
                /\ ret.info.key \in lacking
                /\ ret.info.unit_key = ret.info.key \o <<"_", "u", "n", "i", "t">>

\* C7: parse_fctb_dict fails with a parse error for every document that lacks one
\* of version, name, shape, shape-type, parameter; the one error lists every
\* missing field and no present one; a document with all five does not fail so.
C7_MissingFields ==
    (data # Unset /\ IsDict(data) /\ pc # "parse_fctb_dict") =>
        LET missing == {k \in {"version", "name", "shape", "shape-type", "parameter"} :
                           ~Has(data, k)}
        IN  IF missing # {}
            THEN /\ tool = Unset
                 /\ ~ret.ok /\ ret.exc = "FctbParseError"
                 /\ {ret.info[i] : i \in 1..Len(ret.info)} = missing
                 /\ Len(ret.info) = Cardinality(missing)
            ELSE ~(tool = Unset /\ ~ret.ok /\ ret.exc = "FctbParseError")

\* C7 witness: a document lacking two fields was rejected with both listed
C7_Witness ==
    /\ pc = "done" /\ tool = Unset
    /\ IsDict(data) /\ Has(data, "version") /\ Has(data, "shape")
    /\ ret = Raise("FctbParseError", <<"name", "parameter">>)

\* C8: for every accepted document the normalized record has the parameter keys
\* of the document, each value being parse_parameter_value of the original;
\* attribute is the document's, or an empty mapping when it has none; and the
\* retained original is the whole input document, unknown keys included.
C8_NormalizedRecord ==
    (data # Unset /\ tool # Unset) =>
        LET before == data.f["parameter"].items
            after == tool.f["parameters"].items
        IN  /\ Len(after) = Len(before)
            /\ KeysOf(after) = KeysOf(before)
            /\ \A k \in KeysOf(before) :
                   ValueAt(after, k) = parse_parameter_value(ValueAt(before, k))
            /\ tool.f["attribute"] =
                   IF "attribute" \in DOMAIN data.f THEN data.f["attribute"] ELSE PyDict(<<>>)
            /\ tool.f["_original"] = data
            /\ DOMAIN tool.f["_original"].f = DOMAIN data.f

\* C8 witness: a document with an unknown key, no attribute and a unit-decorated
\* parameter was accepted
C8_Witness ==
    /\ data # Unset /\ tool # Unset
    /\ Has(data, "custom") /\ ~Has(data, "attribute")
    /\ \E i \in 1..Len(tool.f["parameters"].items) :
           HasValueKey(tool.f["parameters"].items[i].v)

\* the tool bit was parsed and converted to an exchange item
Converted == data # Unset /\ tool # Unset /\ smooth_tool # Unset

\* C11: the Material parameter goes to material.type only and never into
\* geometry; every other parameter has its own geometry entry under its
\* snake_case key, two keys (<key>, <key>_unit) for a unit-decorated value and
\* one for a plain value; geometry holds nothing else, so it has as many keys as
\* plain parameters plus twice the unit-decorated ones, and no value is overwritten.
C11_GeometryAsStated ==
    Converted =>
        LET params == tool.f["parameters"].items
            geometry == smooth_tool.f["geometry"].items
            others == {i \in 1..Len(params) : params[i].k # MaterialKey}
            decorated == {i \in others : HasValueKey(params[i].v)}
        IN  /\ MaterialKey \in KeysOf(params) =>
                  smooth_tool.f["material"] = PyObj([type |-> ValueAt(params, MaterialKey)])
            /\ \A i \in others :
                  LET key == to_snake(params[i].k)
                  IN  /\ key \in KeysOf(geometry)
                      /\ IF i \in decorated
                         THEN /\ ValueAt(geometry, key) = params[i].v.f["value"]
                              /\ (key \o UnitSuffix) \in KeysOf(geometry)
                              /\ ValueAt(geometry, key \o UnitSuffix) = params[i].v.f["unit"]
                         ELSE ValueAt(geometry, key) = params[i].v
            /\ Len(geometry) = Cardinality(others \ decorated) + 2 * Cardinality(decorated)

\* smooth_to_fctb returned a document for the exchange item
Exported == pc = "done" /\ smooth_tool # Unset /\ fctb # Unset
\* d[k] when d is a mapping that has k, None otherwise
Field(d, k) == IF IsDict(d) /\ "f" \in DOMAIN d /\ Has(d, k) THEN d.f[k] ELSE None
MetadataOf(st) == Field(st, "freecad_metadata")
HasField(d, k) == IsDict(d) /\ "f" \in DOMAIN d /\ Has(d, k)

\* C12: the shape-type of the document is the shape type of the item's metadata
\* when the metadata has one; otherwise Probe for the type probe and Endmill for
\* every other, missing or unknown type; so a tool bit converted forth and back
\* keeps its shape-type, whatever it is.
C12_ShapeType ==
    Exported =>
        /\ fctb.f["shape-type"] =
              IF HasField(MetadataOf(smooth_tool), "shape_type")
              THEN MetadataOf(smooth_tool).f["shape_type"]
              ELSE IF Field(smooth_tool, "type") = Str(ProbeType) THEN Str(ProbeShape)
              ELSE Str(EndmillShape)
        /\ data # Unset => fctb.f["shape-type"] = data.f["shape-type"]

\* C12 witness: a tool bit of a shape type the forward map does not know went
\* forth and back and kept its shape-type
C12_Witness ==
    /\ Exported /\ data # Unset
    /\ data.f["shape-type"] = Str(<<"B", "u", "l", "l", "n", "o", "s", "e">>)
    /\ smooth_tool.f["type"] = Str(CuttingTool)
    /\ fctb.f["shape-type"] = Str(<<"B", "u", "l", "l", "n", "o", "s", "e">>)

\* the places a shape file is looked for, in their order
ShapeSources(st) ==
    <<Field(MetadataOf(st), "shape"),
      Field(Field(Field(st, "shape_data"), "reference"), "value"),
      Field(Field(Field(st, "shape_data"), "metadata"), "original_reference")>>

\* C13: the shape of the document is the first of freecad_metadata.shape,
\* shape_data.reference.value and shape_data.metadata.original_reference that is
\* neither absent nor empty, and <default_shape>.fcstd when there is none; it is
\* never empty.
C13_ShapeFile ==
    Exported =>
        LET sources == ShapeSources(smooth_tool)
            usable == {i \in 1..3 : Truthy(sources[i])}
        IN  /\ fctb.f["shape"] =
                  IF usable = {} THEN Str(default_shape \o <<".", "f", "c", "s", "t", "d">>)
                  ELSE sources[CHOOSE i \in usable : \A j \in usable : i <= j]
            /\ Truthy(fctb.f["shape"])

\* C13 witness: an item with an empty metadata shape, a reference value and an
\* original reference was exported with the reference value
C13_Witness ==
    /\ Exported
    /\ ShapeSources(smooth_tool) = <<Str(<<>>), ShapeA, ShapeB>>
    /\ fctb.f["shape"] = ShapeA

\* C14 as stated: the id of the document is the metadata's id when the metadata
\* supplies one, a null id counting as not supplied; otherwise the item's own id
\* when it has one; otherwise the document has no id entry.
C14_IdAsStated ==
    Exported =>
        LET metadata_id == Field(MetadataOf(smooth_tool), "id")
        IN  IF metadata_id # None
            THEN Has(fctb, "id") /\ fctb.f["id"] = metadata_id
            ELSE IF Field(smooth_tool, "id") # None
            THEN Has(fctb, "id") /\ fctb.f["id"] = smooth_tool.f["id"]
            ELSE ~Has(smooth_tool, "id") => ~Has(fctb, "id")

----------------------------------------------------------------------------
(* Claims about the duplicate detector, checked under SpecDup *)

\* the id a tool bit carries into the exchange item: freecad_metadata.id
NativeId(t) ==
    IF Has(t, "freecad_metadata") /\ IsDict(t.f["freecad_metadata"])
    THEN Get(t.f["freecad_metadata"], "id") ELSE None
\* the candidate's native id is a key of the existing-by-id index
MatchesById(t) == Truthy(NativeId(t)) /\ NativeId(t) \in KeysOf(existing_by_id)
\* the candidate's signature is tried and is a key of the existing-by-signature index
MatchesBySignature(t) ==
    LET desc == GetOr(t, "description", Str(<<>>))
        diam == IF Has(t, "geometry") THEN GetText(t.f["geometry"], DiameterKey) ELSE None
    IN  /\ Truthy(desc) /\ diam # None
        /\ Signature(desc, diam) \in KeysOf(existing_by_sig)
Checked == pc = "done" /\ (Has(smooth_tool, "geometry") => IsDict(smooth_tool.f["geometry"]))

\* C3: a candidate whose freecad_metadata.id is the id of an entry of the
\* existing-by-id index is reported as a duplicate with the native-id reason
C3_NativeIdAsStated ==
    (Checked /\ MatchesById(smooth_tool)) => ret = Return(<<TRUE, FreeCadIdReason>>)

\* no id of the candidate, native or of the item itself, is a key of the index
MatchesNoId(t) ==
    /\ ~MatchesById(t)
    /\ ~(Truthy(Get(t, "id")) /\ Get(t, "id") \in KeysOf(existing_by_id))

\* C4: the native id is tested before the signature: a candidate that matches an
\* index entry by id and one by signature gets the native-id reason, one that
\* matches by signature only gets the description+diameter reason, and one that
\* matches by neither is no duplicate and gets an empty reason
C4_IdBeforeSignatureAsStated ==
    Checked =>
        /\ (MatchesById(smooth_tool) /\ MatchesBySignature(smooth_tool))
              => ret = Return(<<TRUE, FreeCadIdReason>>)
        /\ (MatchesNoId(smooth_tool) /\ MatchesBySignature(smooth_tool))
              => ret = Return(<<TRUE, SignatureReason>>)
        /\ (MatchesNoId(smooth_tool) /\ ~MatchesBySignature(smooth_tool))
              => ret = Return(<<FALSE, "">>)

----------------------------------------------------------------------------
(* Claims about the library parser, checked under SpecLib *)

Parsed == pc = "library" /\ ret.ok

\* C9 as stated: the label of the parsed library is the document's label field
\* whenever the document has one, whatever its value; the name field only when
\* there is no label field; and None when the document has neither
C9_LabelAsStated ==
    Parsed =>
        library.f["label"] = IF Has(data, "label") THEN data.f["label"]
                             ELSE IF Has(data, "name") THEN data.f["name"]
                             ELSE None

\* C9: the label of the parsed library is the document's label field when the
\* document has one that is neither null nor empty; otherwise the name field
\* when the document has one; otherwise None
C9_LabelUnlessEmpty ==
    Parsed =>
        library.f["label"] = IF Has(data, "label") /\ Truthy(data.f["label"])
                             THEN data.f["label"]
                             ELSE IF Has(data, "name") THEN data.f["name"]
                             ELSE None

\* a document with an empty label and a name was parsed, and the library is
\* labelled with the name
C9_Witness ==
    /\ Parsed
    /\ Has(data, "label") /\ data.f["label"] = Str(<<>>)
    /\ Has(data, "name") /\ data.f["name"] = NameN
    /\ library.f["label"] = NameN

\* the (number, path) pairs of a list of entries, in order
Pairs(entries, nr, path) ==
    [i \in 1..Len(entries.elems) |-> <<Get(entries.elems[i], nr), Get(entries.elems[i], path)>>]

\* a library was parsed and handed to library_to_smooth_tool_set, which has
\* ended, and smooth_to_fctl after it where the conversion returned
RoundTripEnded == library # Unset /\ pc \in {"failed", "fctl"}

\* C16 as stated: for every parsed library L and every content of the bits
\* directory, library_to_smooth_tool_set(L) returns and
\* smooth_to_fctl(library_to_smooth_tool_set(L)) has exactly the (nr, path)
\* sequence of L
C16_RoundTripAsStated ==
    RoundTripEnded =>
        /\ pc = "fctl"
        /\ Pairs(fctl.f["tools"], "nr", "path") = Pairs(library.f["tools"], "nr", "path")

\* smooth_to_fctl has returned
Exported_fctl == pc = "fctl" /\ ret.ok
\* the members smooth_to_fctl reads: the members list, or else the tools list
ListUsed == IF Has(tool_set, "members") THEN tool_set.f["members"] ELSE tool_set.f["tools"]
HasList == Has(tool_set, "members") \/ Has(tool_set, "tools")
\* the library has exactly one entry per key of tools_dict, in ascending order
\* of the numbers, each with the path tool_<number>.fctb
OneEntryPerKey ==
    LET entries == fctl.f["tools"].elems
    IN  /\ Len(entries) = Len(tools_dict.items)
        /\ {entries[i].f["nr"] : i \in 1..Len(entries)} = KeysOf(tools_dict.items)
        /\ \A i, j \in 1..Len(entries) : i < j => entries[i].f["nr"].i < entries[j].f["nr"].i
        /\ \A i \in 1..Len(entries) : entries[i].f["path"] = tool_file(entries[i].f["nr"])
\* every member with a tool number and no path has the path tool_<number>.fctb
\* in its entry
SynthesizedPaths ==
    HasList =>
        /\ Len(fctl.f["tools"].elems) = Len(ListUsed.elems)
        /\ \A i \in 1..Len(ListUsed.elems) :
              Has(ListUsed.elems[i], "tool_number") /\ ~Has(ListUsed.elems[i], "tool_path")
                  => fctl.f["tools"].elems[i] =
                         PyObj([nr |-> ListUsed.elems[i].f["tool_number"],
                                path |-> tool_file(ListUsed.elems[i].f["tool_number"])])

\* C17 as stated: whenever smooth_to_fctl is given a tools_dict, the library has
\* exactly one entry per key of it, ascending, with the paths tool_<number>.fctb;
\* and a member with a number and no path gets the path tool_<number>.fctb
C17_ToolsDictAsStated ==
    Exported_fctl =>
        /\ tools_dict # None => OneEntryPerKey
        /\ SynthesizedPaths

\* C17: when smooth_to_fctl is given a tools_dict and the tool set has neither a
\* members nor a tools field, the library has exactly one entry per key of the
\* tools_dict, in ascending order of the tool numbers, each with the path
\* tool_<number>.fctb; and a member with a number and no path gets the path
\* tool_<number>.fctb
C17_ToolsDictWithoutList ==
    Exported_fctl =>
        /\ (tools_dict # None /\ ~HasList) => OneEntryPerKey
        /\ SynthesizedPaths

\* a tools_dict whose larger number was inserted first was exported for a tool
\* set without a list, and the entries are in ascending order
C17_Witness ==
    /\ Exported_fctl /\ ~HasList
    /\ tools_dict # None /\ Len(tools_dict.items) = 2
    /\ tools_dict.items[1].k.i > tools_dict.items[2].k.i
    /\ fctl.f["tools"].elems = <<PyObj([nr |-> tools_dict.items[2].k,
                                        path |-> tool_file(tools_dict.items[2].k)]),
                                 PyObj([nr |-> tools_dict.items[1].k,
                                        path |-> tool_file(tools_dict.items[1].k)])>>

\* check_tool_number_uniqueness has ended
UniquenessChecked == pc = "checked"
\* the tool numbers of the entries of the library, in order
ToolNumbers == [i \in 1..Len(library.f["tools"].elems) |-> library.f["tools"].elems[i].f["nr"]]
\* how many entries carry the number
Occurrences(nr) == Cardinality({i \in 1..Len(ToolNumbers) : ToolNumbers[i] = nr})

\* C18: check_tool_number_uniqueness returns, also when numbers repeat; a number
\* is in the result if and only if at least two entries carry it; no number is
\* in the result twice; the result is empty if and only if all tool numbers are
\* distinct; and the library is as parse_fctl_dict returned it
C18_Duplicates ==
    UniquenessChecked =>
        /\ ret.ok
        /\ LET duplicates == ret.val.elems
           IN  /\ \A k \in 1..Len(duplicates) : Occurrences(duplicates[k]) >= 2
               /\ \A i \in 1..Len(ToolNumbers) :
                     Occurrences(ToolNumbers[i]) >= 2
                         => \E k \in 1..Len(duplicates) : duplicates[k] = ToolNumbers[i]
               /\ \A k, h \in 1..Len(duplicates) : k # h => duplicates[k] # duplicates[h]
               /\ duplicates = <<>>
                    <=> \A i, j \in 1..Len(ToolNumbers) : i # j => ToolNumbers[i] # ToolNumbers[j]
        /\ library = parse_fctl_dict(data).val

\* a library whose two entries carry the same number was checked, and the
\* result holds that number once
C18_Witness ==
    /\ UniquenessChecked
    /\ Len(ToolNumbers) = 2 /\ ToolNumbers[1] = ToolNumbers[2]
    /\ library.f["tools"].elems[1] # library.f["tools"].elems[2]
    /\ ret.ok /\ ret.val = PyList(<<ToolNumbers[1]>>)

----------------------------------------------------------------------------
(* Claims about the library exporter, checked under SpecExport *)

\* the entries of the library export_toolset_to_freecad generates
GeneratedEntries == smooth_to_fctl(tool_set, tools_dict).val.f["tools"].elems
\* the numbers of the generated entries that are no key of tools_dict
MissingNumbers ==
    {GeneratedEntries[i].f["nr"] : i \in 1..Len(GeneratedEntries)} \ KeysOf(tools_dict.items)
\* the output directory holds a file at the path
Written(path) == path \in DOMAIN output_dir.entries

\* C19 as stated: when the number of some generated entry is no key of
\* tools_dict, export_toolset_to_freecad raises ValueError naming such a number;
\* when every number is a key, it returns the path of the library file, that
\* file is written, and there is a tool-bit file at the path of every entry
C19_ExportAsStated ==
    pc = "exported" =>
        IF MissingNumbers # {}
        THEN ~ret.ok /\ ret.exc = "ValueError" /\ ret.info \in MissingNumbers
        ELSE /\ ret.ok
             /\ Written(ret.val.s)
             /\ \A i \in 1..Len(GeneratedEntries) : Written(GeneratedEntries[i].f["path"].s)

----------------------------------------------------------------------------
(* Claims about the shape storage, checked under SpecShape *)

\* the attachment is present, its reference is of kind inline and carries a
\* content payload
IsInlineAttachment ==
    /\ attachment # None /\ Has(attachment, "reference")
    /\ IsDict(attachment.f["reference"])
    /\ Get(attachment.f["reference"], "type") = Str(Inline)
    /\ Has(attachment.f["reference"], "content")

\* C20 as stated: for an attachment that is not inline with a payload,
\* download_and_save_shape returns None and leaves the output directory as it
\* was, absent if it was absent; for an inline attachment with a payload it
\* returns a path, and the directory then holds what it held before and, at
\* that path, a file with the decoded payload
C20_InlineOnlyAsStated ==
    [][pc = "download_and_save_shape" =>
          IF IsInlineAttachment
          THEN /\ ret'.ok /\ ret'.val # None
               /\ b64decode(attachment.f["reference"].f["content"]).ok
               /\ output_dir'.exists
               /\ output_dir'.entries =
                     (ret'.val.s :> BytesFile(b64decode(attachment.f["reference"].f["content"]).val))
                         @@ output_dir.entries
          ELSE ret' = Return(None) /\ output_dir' = output_dir]_vars

----------------------------------------------------------------------------
(* Claims about the conversion functions as a whole, checked under SpecConvert *)

\* C15: no conversion or parsing function changes the value passed to it: across
\* a call of parse_fctb_dict, fctb_to_smooth, smooth_to_fctb, parse_fctl_dict,
\* load_library_with_tools, library_to_smooth_tool_set,
\* check_tool_number_uniqueness or smooth_to_fctl, whether it returns or raises,
\* every argument, with the mappings and sequences nested in it, is as before
C15_NoMutation ==
    [][/\ pc \in {"parse_fctb_dict", "parse_fctl_dict"} => data' = data
       /\ pc = "fctb_to_smooth" => tool' = tool
       /\ pc = "smooth_to_fctb" => smooth_tool' = smooth_tool
       /\ pc = "library" => library' = library
       /\ pc = "smooth_to_fctl" => tool_set' = tool_set /\ tools_dict' = tools_dict]_vars

\* load_library_with_tools has returned a library whose first entry carries the
\* parsed tool bit, and the entry of the library passed in carries none
C15_Witness ==
    /\ pc = "loaded" /\ ret.ok
    /\ ret.val.f["tools"].elems # <<>>
    /\ Has(ret.val.f["tools"].elems[1], "tool_data")
    /\ Truthy(ret.val.f["tools"].elems[1].f["resolved"])
    /\ ~Has(library.f["tools"].elems[1], "tool_data")
    /\ ~Has(library.f["tools"].elems[1], "resolved")

----------------------------------------------------------------------------
(* Claims about the file parsers, checked under SpecFile *)

FctbRecordFields ==
    {"version", "id", "name", "shape", "shape_type", "parameters", "attribute", "_original"}
FctlRecordFields == {"version", "label", "tools", "_original"}

\* C10: whatever the path holds, parse_fctb returns a complete normalized record
\* or fails with FctbParseError, and parse_fctl returns a complete record or
\* fails with FctlParseError
C10_TypedErrorsAsStated ==
    /\ pc = "parsed_fctb" =>
          IF ret.ok THEN DOMAIN ret.val.f = FctbRecordFields
          ELSE ret.exc = "FctbParseError"
    /\ pc = "parsed_fctl" =>
          IF ret.ok THEN DOMAIN ret.val.f = FctlRecordFields
          ELSE ret.exc = "FctlParseError"

----------------------------------------------------------------------------
(* Claims on the shape storage's hashes *)

IsRegular(path) == files[path].kind = "bytes"
Verified == pc \in {"verified", "verified_prepared"} /\ files[file_path].kind # "directory"
HasColon(t) == \E i \in 1..Len(t) : t[i] = ":"
\* the text after the first colon of t, t itself when it holds none
AfterFirstColon(t) ==
    IF ~HasColon(t) THEN t
    ELSE CHOOSE d \in {SubSeq(t, i + 1, Len(t)) : i \in 1..Len(t)} :
           \E i \in 1..Len(t) :
              /\ t[i] = ":"
              /\ ~HasColon(SubSeq(t, 1, i - 1))
              /\ d = SubSeq(t, i + 1, Len(t))
AlgorithmNames == {<<>>, <<"m", "d", "5">>, <<"s", "h", "a", "2", "5", "6">>}

\* C21: for a path that names a regular file or nothing,
\* verify_shape_file_integrity returns, and returns true exactly when the file
\* exists and the text after the first colon of the expected hash (the whole
\* text when it holds no colon) is the SHA-256 digest of the file's bytes;
\* the result is the same under every algorithm name put before that digest
\* portion; and the hash of prepare_shape_upload's payload for the same,
\* unmodified file verifies as true.
C21_VerifyIntegrity ==
    Verified =>
       /\ ret.ok
       /\ ret.val = PyBool(/\ IsRegular(file_path)
                           /\ AfterFirstColon(expected_hash.s)
                                = sha256_hexdigest(files[file_path].value))
       /\ \A a \in AlgorithmNames :
             verify_shape_file_integrity(
                 file_path, Str(a \o <<":">> \o AfterFirstColon(expected_hash.s)), files) = ret
       /\ pc = "verified_prepared" => ret.val = PyBool(TRUE)
\* a file verified as intact against a hash whose algorithm name is not sha256
C21_Witness ==
    /\ pc = "verified"
    /\ ret = Return(PyBool(TRUE))
    /\ HasColon(expected_hash.s)
    /\ SubSeq(expected_hash.s, 1, 3) = <<"m", "d", "5">>

HexChars == {"0", "1", "2", "3", "4", "5", "6", "7", "8", "9", "a", "b", "c", "d", "e", "f"}
\* v is a text of the form sha256:<hex>
IsSha256Text(v) ==
    /\ IsStr(v)
    /\ Len(v.s) > Len(Sha256Prefix)
    /\ SubSeq(v.s, 1, Len(Sha256Prefix)) = Sha256Prefix
    /\ \A i \in (Len(Sha256Prefix) + 1)..Len(v.s) : v.s[i] \in HexChars

\* C22: every hash text the shape storage produces has the form sha256:<hex>:
\* the result of calculate_file_hash, the hash of prepare_shape_upload's
\* payload, and the reference.hash of create_shape_data_reference's attachment.
C22_HashFormAsStated ==
    /\ pc = "hashed" /\ ret.ok => IsSha256Text(ret.val)
    /\ pc = "prepared" => IsSha256Text(ret.val.f["hash"])
    /\ (/\ pc = "referenced" /\ ret.ok /\ ret.val # None
        /\ "hash" \in DOMAIN ret.val.f["reference"].f)
          => IsSha256Text(ret.val.f["reference"].f["hash"])

\* the directories in the order the claim gives: the primary one, then the
\* search directories
SearchOrder == <<base_dir>> \o (IF search_dirs = None THEN <<>> ELSE search_dirs.elems)
Holding == {i \in 1..Len(SearchOrder) : join(SearchOrder[i], shape_reference) \in files}
FirstHolding == CHOOSE i \in Holding : \A j \in Holding : i <= j

\* C23: resolve_shape_file_path returns, and what it returns is the
\* reference joined to the first directory, in the order primary directory
\* then search directories as given, under which the reference exists, and
\* None when it exists under none of them (also without search directories).
C23_Resolve ==
    pc = "resolved" =>
       /\ ret.ok
       /\ ret.val = IF Holding = {} THEN None
                    ELSE PyPath(join(SearchOrder[FirstHolding], shape_reference))
\* the reference is missing from the primary directory and found in two
\* different search directories
C23_Witness ==
    /\ pc = "resolved"
    /\ ret.val # None
    /\ 1 \notin Holding
    /\ {2, 3} \subseteq Holding
    /\ SearchOrder[2] # SearchOrder[3]
    /\ ~shape_reference.abs

----------------------------------------------------------------------------
(* Claims on the batch handlers of the dialog *)

Returned == pc = "returned"
\* the handler running is export_tool_bits
Exporting == items # Unset
\* every selected entry is counted exactly once
Tally ==
    IF Exporting THEN tools_exported + errors + skipped = Len(selected)
    ELSE imported + errors = Len(selected)
\* the entries counted while the loop runs: sent later, failed, skipped, imported
Counted == IF Exporting THEN Len(smooth_tools) + errors + skipped ELSE imported + errors
\* a loop pass in which the entry failed
PassFailed == ~Returned /\ ~Returned' /\ errors' > errors

\* C25: in export_tool_bits and import_tool_items every loop pass counts its
\* entry exactly once, a pass whose entry fails is counted as an error and
\* the loop goes on to the next entry, and the handler returns only with
\* every selected entry processed: then exported + errors + skipped is the
\* number of selected bits, whether the bulk POST succeeded or failed, and
\* imported + errors is the number of selected items; the counters are what
\* is returned.
C25_BatchTally ==
    /\ [](IF Returned
          THEN /\ idx = Len(selected)
               /\ Tally
               /\ ret = Return(<<IF Exporting THEN tools_exported ELSE imported, errors>>)
          ELSE Counted = idx)
    /\ [][PassFailed => errors' = errors + 1 /\ idx' = idx + 1 /\ pc' = pc]_vars
\* an export where one bit failed, one was sent and the bulk POST failed
C25_Witness ==
    /\ Returned /\ Exporting
    /\ Len(selected) = 2 /\ Len(posts) = 1 /\ Len(posts[1]) = 1
    /\ tools_exported = 0 /\ errors = 2

\* the selected bits a call of export_tool_bits has to send, by position:
\* parsed, converted and checked without failure, and not reported as
\* duplicates against the indexes of the fetch
ToolOf(i) == fctb_to_smooth(parse_fctb(selected[i], files).val).val
Sendable(i) ==
    /\ parse_fctb(selected[i], files).ok
    /\ fctb_to_smooth(parse_fctb(selected[i], files).val).ok
    /\ check_duplicates(ToolOf(i), existing_by_id, existing_by_sig).ok
    /\ ~check_duplicates(ToolOf(i), existing_by_id, existing_by_sig).val[1]
ToSend == {i \in 1..Len(selected) : Sendable(i)}
\* the k-th member of ToSend in selection order
Nth(k) == CHOOSE i \in ToSend : Cardinality({j \in ToSend : j < i}) = k - 1
\* a tool as sent: the converted tool, its shape reference possibly put inline
SameTool(sent, st) ==
    /\ DOMAIN sent.f = DOMAIN st.f
    /\ \A k \in DOMAIN st.f \ {"shape_data"} : sent.f[k] = st.f[k]

----------------------------------------------------------------------------
(* Claim on the loading of a library's tool bits, checked under SpecLib *)

\* the tool-bit file of an entry exists under bits_dir and parses
Loadable(entry) ==
    /\ Exists(entry.f["path"].s, files)
    /\ parse_fctb(entry.f["path"].s, files).ok

\* C26: load_library_with_tools returns for every library and every content
\* of the tool-bit files; the result holds every tool entry of the library in
\* the original order with nr and path unchanged; resolved is true exactly
\* when the entry's file exists under bits_dir and was parsed, and tool_data
\* is present exactly when resolved is true.
C26_LoadNeverFailsAsStated ==
    pc = "loaded" =>
       /\ ret.ok
       /\ LET entries == library.f["tools"].elems
              loaded == ret.val.f["tools"].elems
          IN  /\ Len(loaded) = Len(entries)
              /\ \A i \in 1..Len(entries) :
                    /\ loaded[i].f["nr"] = entries[i].f["nr"]
                    /\ loaded[i].f["path"] = entries[i].f["path"]
                    /\ loaded[i].f["resolved"] = PyBool(Loadable(entries[i]))
                    /\ Has(loaded[i], "tool_data") <=> Loadable(entries[i])

----------------------------------------------------------------------------
(* Claim on the order of the exporter's writes, checked under SpecWrite *)

LibraryEntries == fctl.f["tools"].elems
BitWrites == SelectSeq(written, LAMBDA w : w.fn = "write_fctb")
LibraryWrites == SelectSeq(written, LAMBDA w : w.fn = "write_fctl")

\* C28: at every moment of export_toolset_to_freecad the tool-bit files
\* written so far are those of the first entries of the library, one per
\* entry and in entry order, and they are in the output directory; the
\* library file is written at most once, as the last write, and only when a
\* tool-bit file has been written for every entry; a call that has failed
\* (number missing from tools_dict, conversion error, write failure) has
\* written no library file and has left the tool-bit files of the entries
\* before the failing one.
C28_LibraryLast ==
    pc \in {"tools", "exported", "failed"} =>
       /\ Len(BitWrites) = idx
       /\ \A i \in 1..idx :
             /\ BitWrites[i].path = LibraryEntries[i].f["path"].s
             /\ BitWrites[i].path \in DOMAIN output_dir.entries
       /\ Len(LibraryWrites) <= 1
       /\ LibraryWrites # <<>> =>
             /\ written[Len(written)].fn = "write_fctl"
             /\ idx = Len(LibraryEntries)
             /\ pc = "exported" /\ ret.ok
       /\ pc = "exported" => LibraryWrites # <<>>
       /\ pc = "failed" => ~ret.ok /\ LibraryWrites = <<>>
\* the first tool bit was written, the write of the second failed, and the
\* call ended without a library file
C28_Witness ==
    /\ pc = "failed"
    /\ ret.exc = "OSError"
    /\ idx = 1 /\ Len(LibraryEntries) = 2
    /\ Len(written) = 1

----------------------------------------------------------------------------
(* Claims about the upload payload under concurrent writes *)

\* the payload is the one of a file holding the bytes b
PayloadOf(payload, b) ==
    /\ payload.f["content"] = Str(b64encode(b))
    /\ payload.f["hash"] = Str(Sha256Prefix \o sha256_hexdigest(b))
    /\ payload.f["size_bytes"] = PyInt(Len(b))
NothingRead == file_content = Unset /\ file_hash = Unset /\ file_size = Unset

\* C29 (as stated): the payload returned by prepare_shape_upload is
\* self-consistent, its hash and its size_bytes being those of exactly the bytes
\* encoded in its content, also when another process writes the file between
\* the reads of the call; and for an absent path the call fails with a
\* not-found error without reading anything.
C29_SelfConsistentAsStated ==
    /\ pc = "prepared" => \E b \in ShapeContents : PayloadOf(ret.val, b)
    /\ (pc = "failed" /\ files[file_path].kind = "absent") => (ret = NotFound /\ NothingRead)

----------------------------------------------------------------------------
(* Claims about the transliteration of parameter names *)

\* the tool bit went through fctb_to_smooth and smooth_to_fctb
RoundTripped == Converted /\ pc = "done" /\ fctb # Unset
\* the parameter names of a tool bit that go to geometry
GeometryNames(t) == KeysOf(t.f["parameters"].items) \ {MaterialKey}

\* C30 (as stated): for every native parameter name K of an accepted document,
\* snake_to_camel of the snake_case key derived from K is K again, so the
\* round trip smooth_to_fctb(fctb_to_smooth(t)) has exactly the parameter
\* names of t, and two distinct parameter names of one tool bit never map to
\* the same geometry key.
C30_NameRoundTripAsStated ==
    /\ Converted =>
          /\ \A K \in GeometryNames(tool) : snake_to_camel(to_snake(K)) = K
          /\ \A K1, K2 \in GeometryNames(tool) : K1 # K2 => to_snake(K1) # to_snake(K2)
    /\ RoundTripped =>
          KeysOf(fctb.f["parameter"].items) = KeysOf(tool.f["parameters"].items)

====
